---- MODULE Spec2Model ----
(***************************************************************************)
(* Model of the OmniYield backend core: the yield optimizer                *)
(* (services/yield_optimizer.py), the yield data aggregator                *)
(* (services/yield_data_service.py) and the /yield routes that call them   *)
(* (routers/yield_routes.py).                                              *)
(*                                                                         *)
(* Numbers.  Amounts, TVLs and thresholds are Python integers counted in   *)
(* wei (10^18 .. 10^24), wider than TLC's 32-bit machine integers, so      *)
(* they are modelled as unbounded naturals written in limbs of 10^6        *)
(* ("Big").  APYs, risk scores and weights are binary floating point       *)
(* numbers (float64 in the code): they are modelled as binary floats with  *)
(* a MantBits-bit significand, rounded to nearest, ties to even, after     *)
(* every operation, with an unbounded exponent (none of the code's values  *)
(* comes near float64's exponent limits).                                  *)
(***************************************************************************)
EXTENDS Integers, Sequences, FiniteSets, TLC

\* ------------------------------------------------------------------ bounds
\* Significand width of the modelled binary floating point (float64: 53).
MantBits == 5

\* ------------------------------------------------- Python integers ("Big")
\* A Python int n >= 0 is <<l4, l3, l2, l1, l0>>, n = SUM l_i * 10^(6 i).
LimbBase == 10^6

Big(e24, e18, e12, e6, e0) == <<e24, e18, e12, e6, e0>>
BigZero == Big(0, 0, 0, 0, 0)
NLimbs == Len(BigZero)

\* the Big whose limb i is Limb(i)
BigOf(Limb(_)) == Big(Limb(1), Limb(2), Limb(3), Limb(4), Limb(5))

\* -1, 0, 1 as a < b, a = b, a > b, deciding at limb i and below.
RECURSIVE BigCmpFrom(_, _, _)
BigCmpFrom(a, b, i) ==
    IF i > NLimbs THEN 0
    ELSE IF a[i] < b[i] THEN -1
    ELSE IF a[i] > b[i] THEN 1
    ELSE BigCmpFrom(a, b, i + 1)

BigLess(a, b) == BigCmpFrom(a, b, 1) = -1
BigLeq(a, b) == BigCmpFrom(a, b, 1) # 1

\* a + b: the carry out of limb i, then each limb
RECURSIVE BigCarry(_, _, _)
BigCarry(a, b, i) ==
    IF i > NLimbs THEN 0 ELSE (a[i] + b[i] + BigCarry(a, b, i + 1)) \div LimbBase

BigAdd(a, b) ==
    LET Limb(i) == (a[i] + b[i] + BigCarry(a, b, i + 1)) % LimbBase IN BigOf(Limb)

\* a - b for a >= b: the borrow out of limb i, then each limb
RECURSIVE BigBorrow(_, _, _)
BigBorrow(a, b, i) ==
    IF i > NLimbs THEN 0
    ELSE IF a[i] - b[i] - BigBorrow(a, b, i + 1) < 0 THEN 1 ELSE 0

BigSub(a, b) ==
    LET Limb(i) == (a[i] - b[i] - BigBorrow(a, b, i + 1) + LimbBase) % LimbBase
    IN BigOf(Limb)

\* a * k for a small k (k * LimbBase fits a machine integer)
RECURSIVE BigMulCarry(_, _, _)
BigMulCarry(a, k, i) ==
    IF i > NLimbs THEN 0 ELSE (a[i] * k + BigMulCarry(a, k, i + 1)) \div LimbBase

BigMulSmall(a, k) ==
    LET Limb(i) == (a[i] * k + BigMulCarry(a, k, i + 1)) % LimbBase IN BigOf(Limb)

\* a div k and a mod k for a small k > 0: the remainder after limb i, then each limb
RECURSIVE BigRem(_, _, _)
BigRem(a, k, i) ==
    IF i = 0 THEN 0 ELSE (BigRem(a, k, i - 1) * LimbBase + a[i]) % k

BigDivSmall(a, k) ==
    LET Limb(i) == (BigRem(a, k, i - 1) * LimbBase + a[i]) \div k IN BigOf(Limb)
BigModSmall(a, k) == BigRem(a, k, NLimbs)

\* a machine integer n >= 0 as a Big
BigFromInt(n) == Big(0, 0, 0, n \div LimbBase, n % LimbBase)

\* a Big that fits a machine integer, as one
BigIsSmall(a) == a[1] = 0 /\ a[2] = 0 /\ a[3] = 0 /\ a[4] < 2000
BigToInt(a) == a[4] * LimbBase + a[5]

\* a * 2^k and floor(a / 2^k)
RECURSIVE BigShiftLeft(_, _)
BigShiftLeft(a, k) ==
    IF k = 0 THEN a
    ELSE IF k >= 10 THEN BigShiftLeft(BigMulSmall(a, 1024), k - 10)
    ELSE BigMulSmall(a, 2^k)

RECURSIVE BigShiftRight(_, _)
BigShiftRight(a, k) ==
    IF k = 0 \/ a = BigZero THEN a
    ELSE IF k >= 10 THEN BigShiftRight(BigDivSmall(a, 1024), k - 10)
    ELSE BigDivSmall(a, 2^k)

\* -------------------------------------------------- floating point numbers
\* A finite float is [m, e], value m * 2^e, with m = 0 (and e = 0) or
\* 2^(MantBits-1) <= m < 2^MantBits.  Only non-negative values occur: every
\* float of the modelled code is an APY, a risk score, a weight or a product
\* or quotient of those.
NaN == [m |-> -1, e |-> 0]
Inf == [m |-> -2, e |-> 0]
FZero == [m |-> 0, e |-> 0]
IsFinite(x) == x.m >= 0

RECURSIVE BitLen(_)
BitLen(n) == IF n = 0 THEN 0 ELSE 1 + BitLen(n \div 2)

\* The float nearest to n * 2^e (plus, when sticky, a nonzero amount below one
\* unit of n), ties to even.  With sticky, n has more than MantBits bits.
Round(n, e, sticky) ==
    IF n = 0 THEN FZero
    ELSE LET L == BitLen(n) IN
         IF L <= MantBits
         THEN [m |-> n * 2^(MantBits - L), e |-> e - (MantBits - L)]
         ELSE LET sh == L - MantBits
                  q == n \div 2^sh
                  r == n % 2^sh
                  half == 2^(sh - 1)
                  up == r > half \/ (r = half /\ (sticky \/ q % 2 = 1))
                  q2 == IF up THEN q + 1 ELSE q
              IN IF q2 = 2^MantBits
                 THEN [m |-> 2^(MantBits - 1), e |-> e + sh + 1]
                 ELSE [m |-> q2, e |-> e + sh]

\* The float nearest to the rational n / d (n >= 0, d > 0): a decimal literal
\* or a JSON number of the code.
FromRat(n, d) ==
    IF n = 0 THEN FZero
    ELSE LET need == BitLen(d) + MantBits + 2 - BitLen(n)
             k == IF need > 0 THEN need ELSE 0
             num == n * 2^k
         IN Round(num \div d, -k, num % d # 0)

FOne == FromRat(1, 1)

\* float(n) for a Python int n: drop ten bits of n at a time until it fits,
\* keeping whether anything nonzero was dropped.
RECURSIVE BigToFloatFrom(_, _, _)
BigToFloatFrom(a, sh, sticky) ==
    IF BigIsSmall(a) THEN Round(BigToInt(a), sh, sticky)
    ELSE BigToFloatFrom(BigDivSmall(a, 1024), sh + 10,
                        sticky \/ BigModSmall(a, 1024) # 0)

BigToFloat(a) == BigToFloatFrom(a, 0, FALSE)

\* int(x) for a finite float x: truncation
FloatToBig(x) ==
    IF x.m = 0 THEN BigZero
    ELSE IF x.e >= 0 THEN BigShiftLeft(BigFromInt(x.m), x.e)
    ELSE IF -x.e >= MantBits THEN BigZero
    ELSE BigFromInt(x.m \div 2^(-x.e))

FLess(a, b) ==
    IF a.m = 0 THEN b.m > 0
    ELSE IF b.m = 0 THEN FALSE
    ELSE a.e < b.e \/ (a.e = b.e /\ a.m < b.m)

FLeq(a, b) == ~FLess(b, a)

FMul(a, b) ==
    IF a = NaN \/ b = NaN THEN NaN
    ELSE IF a = Inf \/ b = Inf THEN (IF a.m = 0 \/ b.m = 0 THEN NaN ELSE Inf)
    ELSE Round(a.m * b.m, a.e + b.e, FALSE)

FDiv(a, b) ==
    IF a = NaN \/ b = NaN THEN NaN
    ELSE IF a = Inf THEN (IF b = Inf THEN NaN ELSE Inf)
    ELSE IF b = Inf THEN FZero
    ELSE IF b.m = 0 THEN (IF a.m = 0 THEN NaN ELSE Inf)
    ELSE IF a.m = 0 THEN FZero
    ELSE LET num == a.m * 2^(MantBits + 2)
         IN Round(num \div b.m, a.e - b.e - (MantBits + 2), num % b.m # 0)

FAdd(a, b) ==
    IF a = NaN \/ b = NaN THEN NaN
    ELSE IF a = Inf \/ b = Inf THEN Inf
    ELSE IF a.m = 0 THEN b
    ELSE IF b.m = 0 THEN a
    ELSE LET hi == IF a.e >= b.e THEN a ELSE b
             lo == IF a.e >= b.e THEN b ELSE a
             d == hi.e - lo.e
         IN IF d > MantBits + 3 THEN hi
            ELSE Round(hi.m * 2^d + lo.m, lo.e, FALSE)

\* a - b for finite a >= b
FSub(a, b) ==
    IF b.m = 0 THEN a
    ELSE LET d == a.e - b.e
         IN IF d > MantBits + 3 THEN a
            ELSE Round(a.m * 2^d - b.m, b.e, FALSE)

\* abs(a - b)
BigAbsDiff(a, b) == IF BigLeq(b, a) THEN BigSub(a, b) ELSE BigSub(b, a)

\* ------------------------------------------------------------ evaluation
\* Body(value), with value computed once
With(value, Body(_)) == CHOOSE r \in { Body(v) : v \in {value} } : TRUE

\* <<Item(1), ..., Item(n)>>
RECURSIVE MapSeq(_, _)
MapSeq(Item(_), n) == IF n = 0 THEN <<>> ELSE Append(MapSeq(Item, n - 1), Item(n))

\* ------------------------------------------------------------------- state
VARIABLES
    strategies,            \* committed rows of table strategies (models.Strategy), by id
    yield_data,            \* committed rows of table yield_data (models.YieldData)
    optimization_results,  \* committed rows of table optimization_results
    session_new,           \* objects pending in the services' Session (db.add, not yet committed)
    session_failed,        \* the services' Session needs rollback() before its next use
    is_trained,            \* YieldOptimizer.is_trained
    cache,                 \* the value under Redis key "yield_data:latest", or "none"
    ret,                   \* what the last operation returned or raised
    opened,                \* the number of Sessions get_db has made; the k-th is handle k
    closed,                \* the handles get_db has closed
    services_db,           \* the handle the service singletons were made with, 0 when None
    tasks,                 \* the five source tasks of a running fetch_all_yield_data
    runs                   \* the calls of fetch_all_yield_data running side by side

vars == <<strategies, yield_data, optimization_results, session_new, session_failed,
          is_trained, cache, ret, opened, closed, services_db, tasks, runs>>

\* what a call of a service method leaves alone: the handles of the requests
request_vars == <<opened, closed, services_db>>

\* A contract address is "0x" and a number standing for its 40 hex digits; the
\* empty string is the empty tuple.
Address(n) == <<"0x", n>>
NoAddress == <<>>

\* nothing under the Redis key
NoCache == [data |-> <<>>, count |-> -1]

\* ----------------------------------------------------------- configuration
\* config.py: 1 ETH and 1000 ETH in wei
MIN_AMOUNT_THRESHOLD == Big(0, 1, 0, 0, 0)
MAX_AMOUNT_THRESHOLD == Big(0, 1000, 0, 0, 0)

\* yield_optimizer.py: the least number of yield_data rows train_model fits on
MIN_TRAINING_ROWS == 100

\* yield_optimizer.py: the 1e-6 added to a risk score before dividing by it
EPSILON == FromRat(1, 1000000)

\* ------------------------------------------------------------ YieldOptimizer
\* The active strategies whose id is among ids, in id order:
\* db.query(Strategy).filter(Strategy.id.in_(ids), Strategy.is_active == True).all()
RequestedIds(strategies_req) == {strategies_req[i].strategy_id : i \in DOMAIN strategies_req}

query_active_strategies(rows, ids) ==
    LET Wanted(r) == r.id \in ids /\ r.is_active IN SelectSeq(rows, Wanted)

\* db.query(Strategy).filter(Strategy.id == strategy_id).first(); None is the
\* row with id 0, which no table holds
NoStrategy == [id |-> 0]

query_strategy(rows, strategy_id) ==
    IF \E i \in DOMAIN rows : rows[i].id = strategy_id
    THEN rows[CHOOSE i \in DOMAIN rows : rows[i].id = strategy_id]
    ELSE NoStrategy

\* train_model: TRUE when it fitted.  dbUp: the yield_data query succeeds; fit:
\* building the features and fitting the regressor succeed.  Any exception is
\* caught and gives FALSE (lines 67-69); is_trained is only ever assigned TRUE
\* (line 62).
train_model(rows, dbUp, fit) ==
    dbUp /\ Len(rows) >= MIN_TRAINING_ROWS /\ fit

\* predict_yield whose untrained fallback answers 0.0 for every strategy
predict_yield_zero_fallback(rows, trained, strategy_id, raw) ==
    LET strategy == query_strategy(rows, strategy_id) IN
    IF ~trained \/ strategy.id = 0 \/ raw.kind # "value" THEN FZero
    ELSE raw.value

\* predict_yield with the predictor's flag as it is when line 86 is reached.
\* raw is what the regressor would do: predict the float raw.value
\* ("value"), predict something below zero ("negative"), or raise, as any
\* statement of lines 91-114 may ("raise").
predict_yield(rows, trained, strategy_id, raw) ==
    LET strategy == query_strategy(rows, strategy_id) IN
    IF ~trained THEN (IF strategy.id = 0 THEN FZero ELSE strategy.apy)
    ELSE IF strategy.id = 0 \/ raw.kind # "value" THEN FZero
    ELSE raw.value

\* predict_yield as it is called (lines 81-118): an untrained predictor trains
\* first; still untrained, it looks the strategy up outside any try block;
\* trained, it does everything inside one.  env.db is "up", "down" (every
\* database statement raises) or "lookup" (the Strategy query raises); env.fit
\* and env.raw are the outcomes of fitting and of predicting.
predict_yield_call(rows, observations, trained, strategy_id, env) ==
    LET trained_now == trained \/ train_model(observations, env.db # "down", env.fit)
        raw == IF env.db = "up" THEN env.raw ELSE [kind |-> "raise"]
        train_calls == IF trained THEN 0 ELSE 1
    IN IF ~trained_now /\ env.db # "up"
       THEN [status |-> "raised", detail |-> "database error", trained |-> trained_now,
             train_calls |-> train_calls]
       ELSE [status |-> "returned",
             value |-> predict_yield(rows, trained_now, strategy_id, raw),
             trained |-> trained_now, train_calls |-> train_calls]

\* np.sum of a non-empty float array, left to right
RECURSIVE FSumTo(_, _)
FSumTo(a, n) == IF n = 0 THEN FZero ELSE FAdd(FSumTo(a, n - 1), a[n])
FSum(a) == FSumTo(a, Len(a))

sharpe_ratios(strategy_data) ==
    [i \in DOMAIN strategy_data |->
        FDiv(strategy_data[i].expected_yield, FAdd(strategy_data[i].risk_score, EPSILON))]

adjusted_ratios(strategy_data, risk_tolerance) ==
    LET sharpe == sharpe_ratios(strategy_data) IN
    [i \in DOMAIN strategy_data |->
        FAdd(FMul(sharpe[i], FSub(FOne, risk_tolerance)),
             FMul(strategy_data[i].expected_yield, risk_tolerance))]

\* the blend of every strategy, not divided by the total
unnormalized_weights(strategy_data, risk_tolerance) ==
    adjusted_ratios(strategy_data, risk_tolerance)

\* lines 250-256: weights = adjusted_ratios / np.sum(adjusted_ratios)
normalized_weights(strategy_data, risk_tolerance) ==
    LET adjusted == adjusted_ratios(strategy_data, risk_tolerance)
        total == FSum(adjusted)
    IN [i \in DOMAIN strategy_data |-> FDiv(adjusted[i], total)]

\* int(total_amount * weight): the Python int becomes a float, the product is
\* rounded, and int() truncates; it raises on NaN and on infinity.
allocation_amount(total_amount, weight) ==
    FloatToBig(FMul(BigToFloat(total_amount), weight))

Allocation(s, amount, weight) ==
    [strategy_id |-> s.strategy_id, amount |-> amount, weight |-> weight,
     expected_yield |-> s.expected_yield, risk_score |-> s.risk_score]

\* lines 276-293: the except branch
equal_weight_allocations(strategy_data, total_amount) ==
    LET equal_weight == FDiv(FOne, Round(Len(strategy_data), 0, FALSE))
        Item(i) == Allocation(strategy_data[i],
                              allocation_amount(total_amount, equal_weight), equal_weight)
    IN MapSeq(Item, Len(strategy_data))

\* _modern_portfolio_theory (name, type, contract_address and network of an
\* allocation are copied from the strategy and left out here)
modern_portfolio_theory(strategy_data, total_amount, risk_tolerance) ==
    LET weights == normalized_weights(strategy_data, risk_tolerance)
        Item(i) == Allocation(strategy_data[i],
                              allocation_amount(total_amount, weights[i]), weights[i])
    IN IF \E i \in DOMAIN weights : ~IsFinite(weights[i])
       THEN equal_weight_allocations(strategy_data, total_amount)
       ELSE MapSeq(Item, Len(strategy_data))

\* total += allocation['weight'] * values[n], over the first n allocations
RECURSIVE WeightedSumTo(_, _, _)
WeightedSumTo(allocations, values, n) ==
    IF n = 0 THEN FZero
    ELSE FAdd(WeightedSumTo(allocations, values, n - 1),
              FMul(allocations[n].weight, values[n]))

RECURSIVE WeightSumTo(_, _)
WeightSumTo(allocations, n) ==
    IF n = 0 THEN FZero
    ELSE FAdd(WeightSumTo(allocations, n - 1), allocations[n].weight)

\* the sum of the expected yields over the sum of the weights
unweighted_expected_apy(allocations) ==
    LET Yield(a) == a.expected_yield
        yields == MapSeq(LAMBDA i : Yield(allocations[i]), Len(allocations))
        total_weight == WeightSumTo(allocations, Len(allocations))
    IN IF FLess(FZero, total_weight) THEN FDiv(FSum(yields), total_weight) ELSE FZero

\* _calculate_expected_apy: every allocation's strategy is in db_strategies
calculate_expected_apy(allocations) ==
    LET Yield(a) == a.expected_yield
        total_weighted_yield ==
            WeightedSumTo(allocations,
                          MapSeq(LAMBDA i : Yield(allocations[i]), Len(allocations)),
                          Len(allocations))
        total_weight == WeightSumTo(allocations, Len(allocations))
    IN IF FLess(FZero, total_weight) THEN FDiv(total_weighted_yield, total_weight)
       ELSE FZero

\* the sum of the strategy rows' risk scores over the sum of the weights
unweighted_risk_score(allocations, db_strategies) ==
    LET Risk(a) == query_strategy(db_strategies, a.strategy_id).risk_score
        risks == MapSeq(LAMBDA i : Risk(allocations[i]), Len(allocations))
        total_weight == WeightSumTo(allocations, Len(allocations))
    IN IF FLess(FZero, total_weight) THEN FDiv(FSum(risks), total_weight) ELSE FZero

\* _calculate_risk_score: weighted with the strategy row's risk_score
calculate_risk_score(allocations, db_strategies) ==
    LET Risk(a) == query_strategy(db_strategies, a.strategy_id).risk_score
        total_weighted_risk ==
            WeightedSumTo(allocations,
                          MapSeq(LAMBDA i : Risk(allocations[i]), Len(allocations)),
                          Len(allocations))
        total_weight == WeightSumTo(allocations, Len(allocations))
    IN IF FLess(FZero, total_weight) THEN FDiv(total_weighted_risk, total_weight)
       ELSE FZero

\* _calculate_optimal_allocations, lines 195-218: one strategy_data entry per
\* requested entry whose id is among db_strategies, in request order.  raw[i] is
\* what the regressor would predict for entry i.
RECURSIVE collect_strategy_data(_, _, _, _, _, _)
collect_strategy_data(strategies_req, db_strategies, rows, trained, raw, i) ==
    IF i > Len(strategies_req) THEN <<>>
    ELSE LET db_strategy == query_strategy(db_strategies, strategies_req[i].strategy_id)
             rest == collect_strategy_data(strategies_req, db_strategies, rows, trained,
                                            raw, i + 1)
         IN IF db_strategy.id = 0 THEN rest
            ELSE <<[strategy_id |-> db_strategy.id,
                    current_apy |-> db_strategy.apy,
                    risk_score |-> db_strategy.risk_score,
                    weight |-> strategies_req[i].weight,
                    expected_yield |-> predict_yield(rows, trained, db_strategy.id,
                                                     raw[i])]>> \o rest

\* models.py: the amount columns (strategies.tvl, yield_data.tvl,
\* optimization_results.total_amount) are BigInteger, a signed 64-bit integer
\* in the database; a flush of a larger value fails.
BIGINT_MAX == Big(0, 9, 223372, 36854, 775807)

Raised(kind, message, reads, predicts, trained) ==
    [status |-> kind, detail |-> message, strategy_reads |-> reads,
     predict_calls |-> predicts, trained |-> trained,
     committed |-> <<>>, pending |-> <<>>, failed |-> FALSE]

\* a commit that fails and leaves the added row pending in a usable session
persist_result_kept_pending(result, db) ==
    IF db = "commit" \/ BigLess(BIGINT_MAX, result.total_amount)
    THEN [committed |-> <<>>, pending |-> <<result>>, failed |-> FALSE]
    ELSE [committed |-> <<result>>, pending |-> <<>>, failed |-> FALSE]

\* lines 154-168: OptimizationResult(...), db.add, db.commit.  A commit that
\* fails rolls the transaction back, which discards the added row, and leaves
\* the session unusable until its rollback() is called.
persist_result(result, db) ==
    IF db = "commit" \/ BigLess(BIGINT_MAX, result.total_amount)
    THEN [committed |-> <<>>, pending |-> <<>>, failed |-> TRUE]
    ELSE [committed |-> <<result>>, pending |-> <<>>, failed |-> FALSE]

\* a check of the amount that lets every amount through
check_amount_skipped(total_amount) == ""

\* lines 129-133: the text of the ValueError the amount raises, "" when none
check_amount(total_amount) ==
    IF BigLess(total_amount, MIN_AMOUNT_THRESHOLD) THEN "Amount below minimum threshold"
    ELSE IF BigLess(MAX_AMOUNT_THRESHOLD, total_amount) THEN "Amount above maximum threshold"
    ELSE ""

\* optimize_allocations (lines 120-180) on the database state it finds.
\* env.db is "up", "down" (the first statement raises), "predict" (the
\* statement of the first predict_yield raises) or "commit" (the commit
\* raises); env.fit and env.raw are the outcomes of fitting and of predicting.
\* The result carries what the call returns or raises, the rows it committed
\* and left pending, the number of Strategy queries and of predict_yield calls
\* it made, and the predictor's flag afterwards.
optimize_allocations(rows, observations, needs_rollback, trained, total_amount, strategies_req, risk_tolerance, env) ==
    IF check_amount(total_amount) # ""
    THEN Raised("ValueError", check_amount(total_amount), 0, 0, trained)
    ELSE IF needs_rollback \/ env.db = "down"
    THEN Raised("Exception", "database error", 1, 0, trained)
    ELSE LET db_strategies == query_active_strategies(rows, RequestedIds(strategies_req)) IN
    IF db_strategies = <<>>
    THEN Raised("ValueError", "No active strategies found", 1, 0, trained)
    ELSE LET trained_now == trained \/ train_model(observations, TRUE, env.fit) IN
    IF env.db = "predict" /\ ~trained_now
    THEN Raised("Exception", "database error", 2, 1, trained_now)
    ELSE LET strategy_data == collect_strategy_data(strategies_req, db_strategies, rows,
                                                    trained_now, env.raw, 1)
             n == Len(strategy_data)
         IN
    IF strategy_data = <<>>
    THEN Raised("ValueError", "No valid strategies found", 1, 0, trained)
    ELSE LET Result(allocations) ==
                 [user_id |-> 1, total_amount |-> total_amount,
                  optimal_allocations |-> allocations,
                  expected_apy |-> calculate_expected_apy(allocations),
                  risk_score |-> calculate_risk_score(allocations, db_strategies)]
             Outcome(result) ==
                 LET saved == persist_result(result, env.db) IN
                 IF saved.failed
                 THEN [Raised("Exception", "database error", 1 + n, n, trained_now)
                          EXCEPT !.pending = saved.pending, !.failed = TRUE]
                 ELSE [status |-> "ok", detail |-> "", strategy_reads |-> 1 + n,
                       predict_calls |-> n, trained |-> trained_now, row |-> result,
                       committed |-> saved.committed, pending |-> saved.pending,
                       failed |-> FALSE]
         IN With(With(modern_portfolio_theory(strategy_data, total_amount,
                                              risk_tolerance), Result), Outcome)

RECURSIVE WithIds(_, _)
WithIds(rows, last) ==
    IF rows = <<>> THEN <<>>
    ELSE <<[id |-> last + 1] @@ rows[1]>> \o WithIds(Tail(rows), last + 1)

\* A call of YieldOptimizer.optimize_allocations on the services' session: the
\* commit persists everything pending in the session.
OptimizeAllocations(total_amount, strategies_req, risk_tolerance, env) ==
    \E out \in {optimize_allocations(strategies, yield_data, session_failed, is_trained,
                                     total_amount, strategies_req, risk_tolerance, env)} :
       /\ optimization_results' =
            IF out.status = "ok"
            THEN optimization_results \o
                 WithIds(session_new \o out.committed, Len(optimization_results))
            ELSE optimization_results
       /\ session_new' = IF out.status = "ok" THEN <<>> ELSE session_new \o out.pending
       /\ session_failed' = (session_failed \/ out.failed)
       /\ is_trained' = out.trained
       /\ ret' = [op |-> "optimize_allocations",
                  args |-> [total_amount |-> total_amount, strategies |-> strategies_req,
                            risk_tolerance |-> risk_tolerance],
                  out |-> out]
       /\ UNCHANGED <<strategies, yield_data, cache, request_vars, tasks, runs>>

\* A call of YieldOptimizer.predict_yield
PredictYield(strategy_id, env) ==
    \E out \in {predict_yield_call(strategies, yield_data, is_trained, strategy_id, env)} :
       /\ is_trained' = out.trained
       /\ ret' = [op |-> "predict_yield",
                  args |-> [strategy_id |-> strategy_id, trained |-> is_trained, env |-> env],
                  out |-> out]
       /\ UNCHANGED <<strategies, yield_data, optimization_results, session_new,
                      session_failed, cache, request_vars, tasks, runs>>

\* A direct call of YieldOptimizer.train_model (lines 26-69), as get_services
\* makes on a new optimizer and any holder of the optimizer may make again.
\* recent is the number of yield_data rows whose timestamp is within the last
\* 30 days, the newest ones; dbUp and fit are the outcomes of the query and of
\* building the features and fitting.  The method assigns is_trained only on
\* line 62, to True.
TrainModel(recent, dbUp, fit) ==
    /\ recent <= Len(yield_data)
    /\ \E fitted \in {train_model(SubSeq(yield_data, Len(yield_data) - recent + 1,
                                         Len(yield_data)), dbUp, fit)} :
       /\ is_trained' = (is_trained \/ fitted)
       /\ ret' = [op |-> "train_model",
                  args |-> [trained |-> is_trained, recent |-> recent, dbUp |-> dbUp,
                            fit |-> fit],
                  result |-> fitted]
       /\ UNCHANGED <<strategies, yield_data, optimization_results, session_new,
                      session_failed, cache, request_vars, tasks, runs>>

\* yield_optimizer.py line 370: 0.001 ETH in wei
DUST_THRESHOLD == Big(0, 0, 1000, 0, 0)

\* {a['strategy_id']: a for a in allocations}.get(strategy_id, {'amount': 0})
\* ['amount']: the amount of the last of the first i entries with that id
RECURSIVE amount_of(_, _, _)
amount_of(allocations, strategy_id, i) ==
    IF i = 0 THEN BigZero
    ELSE IF allocations[i].strategy_id = strategy_id THEN allocations[i].amount
    ELSE amount_of(allocations, strategy_id, i - 1)

\* lines 362-379: the actions of order[i] and the ids after it
RECURSIVE rebalance_actions(_, _, _, _)
rebalance_actions(current_allocations, target_allocations, order, i) ==
    IF i > Len(order) THEN <<>>
    ELSE LET current_amount == amount_of(current_allocations, order[i],
                                         Len(current_allocations))
             target_amount == amount_of(target_allocations, order[i],
                                        Len(target_allocations))
             difference == BigAbsDiff(target_amount, current_amount)
         IN (IF BigLess(DUST_THRESHOLD, difference)
             THEN <<[strategy_id |-> order[i],
                     action |-> IF BigLess(current_amount, target_amount)
                                THEN "deposit" ELSE "withdraw",
                     amount |-> difference,
                     current_amount |-> current_amount,
                     target_amount |-> target_amount]>>
             ELSE <<>>)
            \o rebalance_actions(current_allocations, target_allocations, order, i + 1)

\* a loop that also acts on a difference of exactly the threshold
RECURSIVE rebalance_actions_from_threshold(_, _, _, _)
rebalance_actions_from_threshold(current_allocations, target_allocations, order, i) ==
    IF i > Len(order) THEN <<>>
    ELSE LET current_amount == amount_of(current_allocations, order[i],
                                         Len(current_allocations))
             target_amount == amount_of(target_allocations, order[i],
                                        Len(target_allocations))
             difference == BigAbsDiff(target_amount, current_amount)
         IN (IF BigLeq(DUST_THRESHOLD, difference)
             THEN <<[strategy_id |-> order[i],
                     action |-> IF BigLess(current_amount, target_amount)
                                THEN "deposit" ELSE "withdraw",
                     amount |-> difference,
                     current_amount |-> current_amount,
                     target_amount |-> target_amount]>>
             ELSE <<>>)
            \o rebalance_actions_from_threshold(current_allocations, target_allocations,
                                                order, i + 1)

rebalance_from_threshold(current_allocations, target_allocations, order) ==
    rebalance_actions_from_threshold(current_allocations, target_allocations, order, 1)

\* the differences taken against an empty current side
rebalance_from_nothing(current_allocations, target_allocations, order) ==
    rebalance_actions(<<>>, target_allocations, order, 1)

\* the two sides taken for each other
rebalance_swapped(current_allocations, target_allocations, order) ==
    rebalance_actions(target_allocations, current_allocations, order, 1)

\* rebalance_portfolio (lines 345-384).  order is the order in which the loop
\* meets the ids of set(current_map) | set(target_map), which Python leaves
\* open.
rebalance_portfolio(current_allocations, target_allocations, order) ==
    rebalance_actions(current_allocations, target_allocations, order, 1)

\* the orders the loop can meet the ids of both sides in
IterationOrders(current_allocations, target_allocations) ==
    LET ids == RequestedIds(current_allocations) \cup RequestedIds(target_allocations)
    IN { order \in [1..Cardinality(ids) -> ids] :
           \A i, j \in DOMAIN order : i # j => order[i] # order[j] }

RebalancePortfolio(current_allocations, target_allocations) ==
    \E order \in IterationOrders(current_allocations, target_allocations) :
       /\ ret' = [op |-> "rebalance_portfolio",
                  args |-> [current_allocations |-> current_allocations,
                            target_allocations |-> target_allocations],
                  actions |-> rebalance_portfolio(current_allocations,
                                                  target_allocations, order)]
       /\ UNCHANGED <<strategies, yield_data, optimization_results, session_new,
                      session_failed, is_trained, cache, request_vars, tasks, runs>>

\* --------------------------------------------------------- YieldDataService
\* A Python dict is the sequence of its items in insertion order; an item of
\* the yields dict carries its key.  The timestamp and metadata fields of an
\* item are left out; no adapter sets 'contract_address'.
dict_set(d, item) ==
    IF \E i \in DOMAIN d : d[i].key = item.key
    THEN [i \in DOMAIN d |-> IF d[i].key = item.key THEN item ELSE d[i]]
    ELSE Append(d, item)

RECURSIVE dict_update(_, _)
dict_update(d, other) ==
    IF other = <<>> THEN d
    ELSE With(dict_set(d, Head(other)), LAMBDA next : dict_update(next, Tail(other)))

\* What a source answered: kind "raise" (the request raises or times out),
\* "status" (a status other than 200), "malformed" (200, parsing the body
\* raises) or "ok" (200, items holds the parsed tokens, pools or reserves).
\* Each adapter returns {} for the first three.
RECURSIVE parse_items(_, _, _, _, _)
parse_items(items, apys, listed, protocol, n) ==
    IF n = 0 THEN <<>>
    ELSE IF ~listed[n] THEN parse_items(items, apys, listed, protocol, n - 1)
    ELSE dict_set(parse_items(items, apys, listed, protocol, n - 1),
                  [key |-> <<protocol, items[n].name>>, protocol |-> protocol,
                   symbol |-> items[n].name, apy |-> apys[n],
                   tvl |-> items[n].tvl, network |-> "ethereum"])

\* the yields dict of an adapter whose items carry their apy
quoted_yields(items, listed, protocol) ==
    parse_items(items, MapSeq(LAMBDA i : items[i].apy, Len(items)), listed, protocol,
                Len(items))

\* the test the Compound and Curve adapters (and the Uniswap adapter, on the
\* locked value) make of an item: its supply is not zero
Supplied(items) == MapSeq(LAMBDA i : items[i].tvl # BigZero, Len(items))

fetch_compound_yields(response) ==
    IF response.kind = "ok" THEN quoted_yields(response.items, Supplied(response.items), "compound")
    ELSE <<>>

\* estimated_apy = (fee_tier / 10000) * 0.1
fetch_uniswap_v3_yields(response) ==
    LET Estimated(pool) ==
          FMul(FDiv(Round(pool.fee_tier, 0, FALSE), Round(10000, 0, FALSE)), FromRat(1, 10))
        items == response.items
    IN IF response.kind = "ok"
       THEN parse_items(items, MapSeq(LAMBDA i : Estimated(items[i]), Len(items)),
                        Supplied(items), "uniswap_v3", Len(items))
       ELSE <<>>

\* one item 'ethereum_staking' at 5%, tvl = int(total_eth * 1e18)
fetch_staking_yields(response) ==
    IF response.kind = "ok" /\ response.total_validators > 0 /\ response.total_eth > 0
    THEN <<[key |-> <<"ethereum_staking", "">>, protocol |-> "staking", symbol |-> "ETH2",
            apy |-> FromRat(5, 100),
            tvl |-> FloatToBig(FMul(Round(response.total_eth, 0, FALSE),
                                    BigToFloat(Big(0, 1, 0, 0, 0)))),
            network |-> "ethereum"]>>
    ELSE <<>>

fetch_aave_yields(response) ==
    LET items == response.items
        is_active == MapSeq(LAMBDA i : items[i].is_active, Len(items))
    IN IF response.kind = "ok" THEN quoted_yields(items, is_active, "aave") ELSE <<>>

fetch_curve_yields(response) ==
    IF response.kind = "ok" THEN quoted_yields(response.items, Supplied(response.items), "curve")
    ELSE <<>>

\* lines 54-62: what the five tasks, in their order, are gathered to
gather_results(responses) ==
    << fetch_compound_yields(responses[1]), fetch_uniswap_v3_yields(responses[2]),
       fetch_staking_yields(responses[3]), fetch_aave_yields(responses[4]),
       fetch_curve_yields(responses[5]) >>

\* lines 65-70: all_yields.update(result) for result i and the results after it
RECURSIVE update_all(_, _, _)
update_all(all_yields, results, i) ==
    IF i > Len(results) THEN all_yields
    ELSE With(dict_update(all_yields, results[i]),
              LAMBDA next : update_all(next, results, i + 1))

\* a gather that lets the first failure end the cycle with nothing
gather_yields_all_or_nothing(responses) ==
    IF \E i \in DOMAIN responses : responses[i].kind # "ok" THEN <<>>
    ELSE With(gather_results(responses), LAMBDA results : update_all(<<>>, results, 1))

\* lines 54-70: the five tasks gathered, every dict merged into all_yields
gather_yields(responses) ==
    With(gather_results(responses), LAMBDA results : update_all(<<>>, results, 1))

\* max(0.0, min(1.0, x)) for a float that is not negative
Clamp(x) == IF FLess(FOne, x) THEN FOne ELSE x

\* a risk score whose APY thresholds include their bounds
observation_risk_score_inclusive(data) ==
    LET base == FromRat(5, 10)
        by_protocol ==
            IF data.protocol \in {"compound", "aave"} THEN FSub(base, FromRat(2, 10))
            ELSE IF data.protocol = "curve" THEN FSub(base, FromRat(1, 10))
            ELSE IF data.protocol = "uniswap_v3" THEN FAdd(base, FromRat(1, 10))
            ELSE base
        by_tvl ==
            IF BigLess(Big(1, 0, 0, 0, 0), data.tvl) THEN FSub(by_protocol, FromRat(1, 10))
            ELSE IF BigLess(data.tvl, Big(0, 10000, 0, 0, 0))
            THEN FAdd(by_protocol, FromRat(1, 10))
            ELSE by_protocol
        by_apy ==
            IF FLeq(FromRat(2, 10), data.apy) THEN FAdd(by_tvl, FromRat(2, 10))
            ELSE IF FLeq(data.apy, FromRat(5, 100)) THEN FSub(by_tvl, FromRat(1, 10))
            ELSE by_tvl
    IN Clamp(by_apy)

\* YieldDataService._calculate_risk_score (lines 364-397)
observation_risk_score(data) ==
    LET base == FromRat(5, 10)
        by_protocol ==
            IF data.protocol \in {"compound", "aave"} THEN FSub(base, FromRat(2, 10))
            ELSE IF data.protocol = "curve" THEN FSub(base, FromRat(1, 10))
            ELSE IF data.protocol = "uniswap_v3" THEN FAdd(base, FromRat(1, 10))
            ELSE base
        by_tvl ==
            IF BigLess(Big(1, 0, 0, 0, 0), data.tvl) THEN FSub(by_protocol, FromRat(1, 10))
            ELSE IF BigLess(data.tvl, Big(0, 10000, 0, 0, 0))
            THEN FAdd(by_protocol, FromRat(1, 10))
            ELSE by_protocol
        by_apy ==
            IF FLess(FromRat(2, 10), data.apy) THEN FAdd(by_tvl, FromRat(2, 10))
            ELSE IF FLess(data.apy, FromRat(5, 100)) THEN FSub(by_tvl, FromRat(1, 10))
            ELSE by_tvl
    IN Clamp(by_apy)

\* a loop body that adds the observation of a missing strategy without
\* creating the strategy
upsert_yield_uncreated(tables, data) ==
    [failed |-> FALSE, rows |-> tables.rows,
     observations |->
        Append(tables.observations,
               [id |-> Len(tables.observations) + 1, strategy_id |-> Len(tables.rows) + 1,
                apy |-> data.apy, tvl |-> data.tvl, network |-> data.network])]

\* a loop body that keeps one observation, the latest, instead of a series
upsert_yield_overwriting(tables, data) ==
    [failed |-> FALSE, rows |-> tables.rows,
     observations |->
        <<[id |-> 1, strategy_id |-> 1, apy |-> data.apy, tvl |-> data.tvl,
           network |-> data.network]>>]

\* a loop body that writes the tvl of a strategy it finds and leaves its apy
upsert_yield_stale_apy(tables, data) ==
    LET rows == tables.rows
        found == SelectSeq(rows, LAMBDA r : r.contract_address = NoAddress
                                            /\ r.network = data.network)
        strategy_id == IF found = <<>> THEN Len(rows) + 1 ELSE found[1].id
    IN [failed |-> FALSE,
        rows |-> IF found = <<>>
                 THEN Append(rows, [id |-> strategy_id, type |-> data.protocol,
                                    contract_address |-> NoAddress,
                                    network |-> data.network, apy |-> data.apy,
                                    tvl |-> data.tvl, risk_score |-> observation_risk_score(data),
                                    is_active |-> TRUE])
                 ELSE [k \in DOMAIN rows |->
                         IF rows[k].id = strategy_id
                         THEN [rows[k] EXCEPT !.tvl = data.tvl] ELSE rows[k]],
        observations |->
           Append(tables.observations,
                  [id |-> Len(tables.observations) + 1, strategy_id |-> strategy_id,
                   apy |-> data.apy, tvl |-> data.tvl, network |-> data.network])]

\* a loop body that looks the strategy up by its protocol as well and creates
\* one row per protocol, on a column that takes the empty address many times
upsert_yield_per_protocol(tables, data) ==
    LET rows == tables.rows
        observations == tables.observations
        Matches(r) == /\ r.contract_address = NoAddress /\ r.network = data.network
                      /\ r.type = data.protocol
        found == SelectSeq(rows, Matches)
        strategy_id == IF found = <<>> THEN Len(rows) + 1 ELSE found[1].id
        created == IF found = <<>>
                   THEN Append(rows, [id |-> Len(rows) + 1, type |-> data.protocol,
                                      contract_address |-> NoAddress,
                                      network |-> data.network,
                                      apy |-> data.apy, tvl |-> data.tvl,
                                      risk_score |-> observation_risk_score(data),
                                      is_active |-> TRUE])
                   ELSE rows
    IN IF BigLess(BIGINT_MAX, data.tvl)
       THEN [failed |-> TRUE, rows |-> rows, observations |-> observations]
       ELSE [failed |-> FALSE,
             rows |-> [k \in DOMAIN created |->
                         IF created[k].id = strategy_id
                         THEN [created[k] EXCEPT !.apy = data.apy, !.tvl = data.tvl]
                         ELSE created[k]],
             observations |-> Append(observations,
                                     [id |-> Len(observations) + 1,
                                      strategy_id |-> strategy_id, apy |-> data.apy,
                                      tvl |-> data.tvl, network |-> data.network])]

\* _update_database_yields, the body of its loop (lines 320-356) for one item
\* on the rows the transaction sees: the item looks its strategy up by
\* contract_address '' and its network, creates it when there is none,
\* overwrites its apy and tvl and adds one yield_data row.  A tvl wider than
\* the column fails the flush, and so does a created strategy whose
\* contract_address (a unique column) another row holds.
upsert_yield(tables, data) ==
    LET rows == tables.rows
        observations == tables.observations
        Matches(r) == r.contract_address = NoAddress /\ r.network = data.network
        Created(found) ==
            IF found = <<>>
            THEN Append(rows, [id |-> Len(rows) + 1, type |-> data.protocol,
                               contract_address |-> NoAddress,
                               network |-> data.network,
                               apy |-> data.apy, tvl |-> data.tvl,
                               risk_score |-> observation_risk_score(data),
                               is_active |-> TRUE])
            ELSE rows
        StrategyId(found) == IF found = <<>> THEN Len(rows) + 1 ELSE found[1].id
        Updated(created, strategy_id) ==
            LET Row(k) == IF created[k].id = strategy_id
                          THEN [created[k] EXCEPT !.apy = data.apy, !.tvl = data.tvl]
                          ELSE created[k]
            IN MapSeq(Row, Len(created))
        YieldEntry(found) ==
            [id |-> Len(observations) + 1, strategy_id |-> StrategyId(found),
             apy |-> data.apy, tvl |-> data.tvl, network |-> data.network]
        Taken == \E k \in DOMAIN rows : rows[k].contract_address = NoAddress
        Step(found) ==
            IF found = <<>> /\ Taken
            THEN [failed |-> TRUE, rows |-> rows, observations |-> observations]
            ELSE [failed |-> FALSE,
                  rows |-> With(Created(found),
                                LAMBDA created : Updated(created, StrategyId(found))),
                  observations |-> Append(observations, YieldEntry(found))]
    IN IF BigLess(BIGINT_MAX, data.tvl)
       THEN [failed |-> TRUE, rows |-> rows, observations |-> observations]
       ELSE With(SelectSeq(rows, Matches), Step)

\* the loop of _update_database_yields from item i on; a failed flush ends it
RECURSIVE upsert_yields(_, _, _)
upsert_yields(tables, all_yields, i) ==
    IF i > Len(all_yields) \/ tables.failed THEN tables
    ELSE With(upsert_yield(tables, all_yields[i]),
              LAMBDA next : upsert_yields(next, all_yields, i + 1))

\* a write phase that commits after every item, so that what was written
\* before a failure stays
update_database_yields_partial(rows, observations, results, pending, needs_rollback, all_yields, db) ==
    LET Keep(work) ==
            [strategies |-> work.rows, yield_data |-> work.observations,
             optimization_results |-> results, committed |-> ~work.failed]
    IN With(upsert_yields([failed |-> FALSE, rows |-> rows, observations |-> observations],
                          all_yields, 1), Keep)

\* _update_database_yields with its commit and its except branch: the tables,
\* the pending rows and the state of the session afterwards.  db is "up", "down"
\* (the first statement raises) or "commit" (the commit raises).  A session
\* that needs a rollback raises at the first statement or at the commit; the
\* except branch rolls back, which discards whatever was pending.
update_database_yields(rows, observations, results, pending, needs_rollback, all_yields, db) ==
    LET unchanged == [strategies |-> rows, yield_data |-> observations,
                      optimization_results |-> results, committed |-> FALSE]
        Commit(work) ==
            IF work.failed THEN unchanged
            ELSE [strategies |-> work.rows, yield_data |-> work.observations,
                  optimization_results |-> results \o WithIds(pending, Len(results)),
                  committed |-> TRUE]
    IN IF \/ needs_rollback
          \/ (db = "down" /\ all_yields # <<>>)
          \/ (db = "commit" /\ (all_yields # <<>> \/ pending # <<>>))
       THEN unchanged
       ELSE With(upsert_yields([failed |-> FALSE, rows |-> rows, observations |-> observations],
                                all_yields, 1), Commit)

\* a cache write whose failure escapes
cache_yield_data_raising(cached, all_yields, redis) ==
    IF redis = "up"
    THEN [cache |-> [data |-> all_yields, count |-> Len(all_yields)], raised |-> FALSE]
    ELSE [cache |-> cached, raised |-> TRUE]

\* _cache_yield_data (lines 293-315) on the value cached under
\* "yield_data:latest".  redis is "none" (the service holds no client: return
\* at line 297), "down" (setex raises: logged at line 315) or "up" (the value is
\* replaced).  Nothing escapes the except branch.
cache_yield_data(cached, all_yields, redis) ==
    IF redis = "up"
    THEN [cache |-> [data |-> all_yields, count |-> Len(all_yields)], raised |-> FALSE]
    ELSE [cache |-> cached, raised |-> FALSE]

\* get_cached_yield_data (lines 399-415): None without a client, on a miss
\* and when the read raises, else the cached value
None == [data |-> <<>>, count |-> -2]

get_cached_yield_data(cached, redis) ==
    IF redis = "up" /\ cached # NoCache THEN cached ELSE None

\* fetch_all_yield_data from the moment its five tasks are gathered (lines
\* 62-78): merge, cache, update the database, return what was gathered.  An
\* exception that escaped the cache write would end the call in the except
\* branch of lines 80-82, with {} and before the database is touched.
CompleteCycle(responses, redis, db) ==
    \E all_yields \in {gather_yields(responses)} :
    \E cached \in {cache_yield_data(cache, all_yields, redis)} :
    \E saved \in {IF cached.raised
                  THEN [strategies |-> strategies, yield_data |-> yield_data,
                        optimization_results |-> optimization_results,
                        session_new |-> session_new, session_failed |-> session_failed,
                        committed |-> FALSE]
                  ELSE [session_new |-> <<>>, session_failed |-> FALSE] @@
                       update_database_yields(strategies, yield_data, optimization_results,
                                              session_new, session_failed, all_yields, db)} :
       /\ cache' = cached.cache
       /\ strategies' = saved.strategies
       /\ yield_data' = saved.yield_data
       /\ optimization_results' = saved.optimization_results
       /\ session_new' = saved.session_new
       /\ session_failed' = saved.session_failed
       /\ ret' = [op |-> "fetch_all_yield_data",
                  args |-> [responses |-> responses, redis |-> redis, db |-> db],
                  status |-> "returned",
                  result |-> IF cached.raised THEN <<>> ELSE all_yields,
                  committed |-> saved.committed]

\* A call of get_cached_yield_data
GetCachedYieldData(redis) ==
    /\ ret' = [op |-> "get_cached_yield_data", args |-> [redis |-> redis],
               status |-> "returned", result |-> get_cached_yield_data(cache, redis)]
    /\ UNCHANGED <<strategies, yield_data, optimization_results, session_new,
                   session_failed, is_trained, cache, request_vars, tasks, runs>>

\* Calls of fetch_all_yield_data side by side.  The service is one object on
\* one event loop, so calls interleave where they await.  A call awaits its
\* gather (line 62); merging, the cache write and _update_database_yields,
\* which awaits nothing between its first query and its commit or rollback,
\* follow without another call's write phase in between.
StartRun(responses) ==
    /\ runs' = Append(runs, [phase |-> "gather", responses |-> responses])
    /\ UNCHANGED <<strategies, yield_data, optimization_results, session_new,
                   session_failed, is_trained, cache, ret, request_vars, tasks>>

\* the gather of call r returns and the call runs to its return
CompleteRun(r, redis, db) ==
    /\ runs[r].phase = "gather"
    /\ CompleteCycle(runs[r].responses, redis, db)
    /\ runs' = [runs EXCEPT ![r] =
                  [phase |-> "done", responses |-> runs[r].responses, db |-> db,
                   result |-> ret'.result, committed |-> ret'.committed,
                   seq |-> 1 + Cardinality({q \in DOMAIN runs : runs[q].phase = "done"})]]
    /\ UNCHANGED <<is_trained, request_vars, tasks>>

\* fetch_all_yield_data (lines 51-82) in one step, its five tasks run to their
\* answers within the step
FetchAllYieldData(responses, redis, db) ==
    /\ tasks = <<>>
    /\ CompleteCycle(responses, redis, db)
    /\ UNCHANGED <<is_trained, request_vars, tasks, runs>>

\* fetch_all_yield_data task by task.  asyncio.gather (line 62) wraps the five
\* coroutines in tasks and runs them all on the event loop at once.
Running == [state |-> "running"]
Stalled == [state |-> "stalled"]
Done(response) == [state |-> "done", response |-> response]

StartFetch ==
    /\ tasks = <<>>
    /\ tasks' = [i \in 1..5 |-> Running]
    /\ UNCHANGED <<strategies, yield_data, optimization_results, session_new,
                   session_failed, is_trained, cache, ret, request_vars, runs>>

\* the source of task i answers: the adapter's request returns and is parsed
SourceAnswers(i, response) ==
    /\ tasks # <<>>
    /\ tasks[i] = Running
    /\ tasks' = [tasks EXCEPT ![i] = Done(response)]
    /\ UNCHANGED <<strategies, yield_data, optimization_results, session_new,
                   session_failed, is_trained, cache, ret, request_vars, runs>>

\* the source of task i accepts the request and sends nothing more
SourceStalls(i) ==
    /\ tasks # <<>>
    /\ tasks[i] = Running
    /\ tasks' = [tasks EXCEPT ![i] = Stalled]
    /\ UNCHANGED <<strategies, yield_data, optimization_results, session_new,
                   session_failed, is_trained, cache, ret, request_vars, runs>>

\* a task whose request never ends by itself
never_times_out(task) == FALSE

\* initialize (line 31): the HTTP session is made with ClientTimeout(total=30),
\* which ends every request of the session that has not finished after 30
\* seconds, each request on its own clock
times_out(task) == task.state \in {"running", "stalled"}

\* the request of task i times out: it raises inside the adapter, whose except
\* branch returns {}
SourceTimesOut(i) ==
    /\ tasks # <<>>
    /\ times_out(tasks[i])
    /\ tasks' = [tasks EXCEPT ![i] = Done([kind |-> "raise"])]
    /\ UNCHANGED <<strategies, yield_data, optimization_results, session_new,
                   session_failed, is_trained, cache, ret, request_vars, runs>>

\* gather returns when all five tasks are done; the call goes on to line 64
FinishFetch(redis, db) ==
    /\ tasks # <<>>
    /\ \A i \in DOMAIN tasks : tasks[i].state = "done"
    /\ CompleteCycle([i \in DOMAIN tasks |-> tasks[i].response], redis, db)
    /\ tasks' = <<>>
    /\ UNCHANGED <<is_trained, request_vars, runs>>

\* --------------------------------------------------------- AnalyticsService
\* analytics_service.py line 8, from ..models import ...: the model classes the
\* module's namespace holds.  Evaluating any other class name raises NameError.
imported_models == { "UserAnalytics", "SystemMetrics", "Alert", "Transaction" }

\* lines 383-389 over the first n metrics: the two running sums of
\* int(metric_value) and the running maximum
RECURSIVE process_metrics(_, _)
process_metrics(metrics, n) ==
    IF n = 0
    THEN [total_strategies |-> BigZero, total_tvl |-> BigZero, average_apy |-> FZero]
    ELSE LET Add(totals) ==
               LET metric == metrics[n] IN
               IF metric.metric_name = "active_strategies"
               THEN [totals EXCEPT !.total_strategies =
                        BigAdd(@, FloatToBig(metric.metric_value))]
               ELSE IF metric.metric_name = "total_tvl"
               THEN [totals EXCEPT !.total_tvl = BigAdd(@, FloatToBig(metric.metric_value))]
               ELSE IF metric.metric_name = "average_apy"
               THEN [totals EXCEPT !.average_apy =
                        IF FLess(@, metric.metric_value) THEN metric.metric_value ELSE @]
               ELSE totals
         IN With(process_metrics(metrics, n - 1), Add)

\* lines 396-407 over the first n active strategies: per network the count and
\* the sums of tvl and apy, a dict in insertion order
RECURSIVE network_sums(_, _)
network_sums(active, n) ==
    IF n = 0 THEN <<>>
    ELSE LET Add(breakdown) ==
               LET network == active[n].network
                   seen == SelectSeq(breakdown, LAMBDA item : item.key = network)
                   before == IF seen = <<>>
                             THEN [key |-> network, count |-> 0, tvl |-> BigZero,
                                   average_apy |-> FZero]
                             ELSE seen[1]
               IN dict_set(breakdown,
                           [key |-> network, count |-> before.count + 1,
                            tvl |-> BigAdd(before.tvl, active[n].tvl),
                            average_apy |-> FAdd(before.average_apy, active[n].apy)])
         IN With(network_sums(active, n - 1), Add)

\* lines 409-412: average_apy /= count
network_breakdown(active) ==
    LET sums == network_sums(active, Len(active))
    IN [i \in DOMAIN sums |->
          [sums[i] EXCEPT !.average_apy = FDiv(@, Round(sums[i].count, 0, FALSE))]]

\* the dict a call returns when nothing raises
analytics_dict(totals, breakdown) ==
    << [key |-> "total_strategies", value |-> totals.total_strategies],
       [key |-> "total_tvl", value |-> totals.total_tvl],
       [key |-> "average_apy", value |-> totals.average_apy],
       [key |-> "network_breakdown", value |-> breakdown],
       [key |-> "daily_metrics", value |-> <<>>] >>

\* get_system_analytics (lines 364-418) on the system_metrics rows it finds
\* (each with its age in days) and the strategy rows.  Everything runs inside
\* one try block whose except branch returns {}: the empty dict is returned
\* when a query raises and when line 392 evaluates a name the module does not
\* hold.
get_system_analytics(system_metrics, rows, needs_rollback, days, db_up) ==
    LET metrics == SelectSeq(system_metrics, LAMBDA metric : metric.age <= days)
        active == SelectSeq(rows, LAMBDA r : r.is_active)
    IN IF needs_rollback \/ ~db_up THEN <<>>
       ELSE IF "Strategy" \notin imported_models THEN <<>>
       ELSE analytics_dict(process_metrics(metrics, Len(metrics)), network_breakdown(active))

\* A call of AnalyticsService.get_system_analytics on the services' session;
\* system_metrics is what table system_metrics holds.
GetSystemAnalytics(system_metrics, days, db_up) ==
    /\ ret' = [op |-> "get_system_analytics",
               args |-> [system_metrics |-> system_metrics, days |-> days, db_up |-> db_up],
               status |-> "returned",
               result |-> get_system_analytics(system_metrics, strategies, session_failed,
                                               days, db_up)]
    /\ UNCHANGED <<strategies, yield_data, optimization_results, session_new,
                   session_failed, is_trained, cache, request_vars, tasks, runs>>

\* the user's active holdings:
\* db.query(UserStrategy).filter(user_id == user_id, is_active == True).all()
active_holdings(user_strategies, user_id) ==
    SelectSeq(user_strategies, LAMBDA us : us.user_id = user_id /\ us.is_active)

\* sum(us.amount for us in user_strategies) over the first n holdings
RECURSIVE sum_amounts(_, _)
sum_amounts(holdings, n) ==
    IF n = 0 THEN BigZero ELSE BigAdd(sum_amounts(holdings, n - 1), holdings[n].amount)

\* sum(us.amount * 0.1 for us in user_strategies) over the first n holdings,
\* a float sum that starts from the int 0
RECURSIVE sum_yields(_, _)
sum_yields(holdings, n) ==
    IF n = 0 THEN FZero
    ELSE FAdd(sum_yields(holdings, n - 1), FMul(BigToFloat(holdings[n].amount), FromRat(1, 10)))

\* sum(us.strategy.apy for us in user_strategies) over the first n holdings
RECURSIVE sum_apys(_, _, _)
sum_apys(holdings, rows, n) ==
    IF n = 0 THEN FZero
    ELSE FAdd(sum_apys(holdings, rows, n - 1), query_strategy(rows, holdings[n].strategy_id).apy)

\* update_user_analytics (lines 182-229): table user_analytics after the call.
\* Everything runs inside one try block whose except branch logs and rolls
\* back; the first statement evaluates the name UserStrategy.  The row written
\* holds the values as they are assigned: total_deposited an int,
\* total_yield_earned and current_tvl floats.
update_user_analytics(user_strategies, user_analytics, rows, user_id, db_up) ==
    LET holdings == active_holdings(user_strategies, user_id)
        n == Len(holdings)
        total_deposited == sum_amounts(holdings, n)
        total_yield_earned == sum_yields(holdings, n)
        values == [user_id |-> user_id,
                   total_deposited |-> total_deposited,
                   total_yield_earned |-> total_yield_earned,
                   current_tvl |-> FAdd(BigToFloat(total_deposited), total_yield_earned),
                   average_apy |-> FDiv(sum_apys(holdings, rows, n), Round(n, 0, FALSE))]
        Mine(i) == user_analytics[i].user_id = user_id
    IN IF "UserStrategy" \notin imported_models \/ ~db_up THEN user_analytics
       ELSE IF holdings = <<>> THEN user_analytics
       ELSE IF \E i \in DOMAIN holdings :
                  query_strategy(rows, holdings[i].strategy_id) = NoStrategy
       THEN user_analytics
       ELSE IF \E i \in DOMAIN user_analytics : Mine(i)
       THEN [user_analytics EXCEPT ![CHOOSE i \in DOMAIN user_analytics :
                                        Mine(i) /\ \A j \in 1..(i - 1) : ~Mine(j)] = values]
       ELSE Append(user_analytics, values)

\* A call of AnalyticsService.update_user_analytics on the services' session;
\* user_strategies and user_analytics are what the two tables hold.  The
\* except branch rolls the session back: what it held pending is discarded.
UpdateUserAnalytics(user_strategies, user_analytics, user_id, db_up) ==
    \E after \in {update_user_analytics(user_strategies, user_analytics, strategies,
                                          user_id, db_up)} :
       /\ ret' = [op |-> "update_user_analytics",
                  args |-> [user_strategies |-> user_strategies,
                            user_analytics |-> user_analytics,
                            user_id |-> user_id, db_up |-> db_up],
                  status |-> "returned",
                  user_analytics |-> after]
       /\ session_new' = <<>>
       /\ session_failed' = FALSE
       /\ UNCHANGED <<strategies, yield_data, optimization_results, is_trained, cache,
                      request_vars, tasks, runs>>

\* ------------------------------------------------------------------- routes
\* a create that does not look the contract address up
create_strategy_unchecked(rows, request, db_up) ==
    [status_code |-> 200, detail |-> "",
     rows |-> Append(rows, [id |-> Len(rows) + 1, type |-> request.type,
                            contract_address |-> request.contract_address,
                            network |-> request.network, apy |-> request.apy,
                            tvl |-> request.tvl, risk_score |-> request.risk_score,
                            is_active |-> request.is_active])]

\* POST /yield/strategies (create_strategy, lines 294-347) on the handle of
\* its own request, which it hands to nothing and which is closed when it
\* returns, so that the state keeps no trace of it: 400 when the contract
\* address is taken, 500 after a rollback when the database raises, else the
\* new row.
create_strategy(rows, request, db_up) ==
    IF ~db_up
    THEN [status_code |-> 500, detail |-> "Internal server error", rows |-> rows]
    ELSE IF \E i \in DOMAIN rows : rows[i].contract_address = request.contract_address
    THEN [status_code |-> 400,
          detail |-> "Strategy with this contract address already exists", rows |-> rows]
    ELSE IF BigLess(BIGINT_MAX, request.tvl)
    THEN [status_code |-> 500, detail |-> "Internal server error", rows |-> rows]
    ELSE [status_code |-> 200, detail |-> "",
          rows |-> Append(rows, [id |-> Len(rows) + 1, type |-> request.type,
                                 contract_address |-> request.contract_address,
                                 network |-> request.network, apy |-> request.apy,
                                 tvl |-> request.tvl, risk_score |-> request.risk_score,
                                 is_active |-> request.is_active])]

CreateStrategy(request, db_up) ==
    \E out \in {create_strategy(strategies, request, db_up)} :
       /\ strategies' = out.rows
       /\ ret' = [op |-> "create_strategy", args |-> request,
                  status_code |-> out.status_code, detail |-> out.detail]
       /\ UNCHANGED <<yield_data, optimization_results, session_new, session_failed,
                      is_trained, cache, request_vars, tasks, runs>>

\* get_services (lines 110-126) called with the handle db of a request: the
\* three singletons are made on the first call, with that handle, and the
\* optimizer is trained once; every later call returns the same objects.
get_services(db, held, observations, trained, fit) ==
    IF held = 0 THEN [db |-> db, trained |-> train_model(observations, TRUE, fit)]
    ELSE [db |-> held, trained |-> trained]

\* What serving one request through get_services does to the handles: get_db
\* (database.py lines 45-51) makes the request's Session, get_services keeps it
\* in the singletons when there are none, the route runs the service method on
\* the singletons' handle, and the finally of get_db closes the request's.
ThroughServices(fit) ==
    \E services \in {get_services(opened + 1, services_db, yield_data, is_trained, fit)} :
       /\ opened' = opened + 1
       /\ services_db' = services.db
       /\ is_trained' = services.trained
       /\ closed' = closed \cup {opened + 1}

\* POST /yield/optimize (optimize_yield, lines 129-186).  The two checks raise
\* HTTPException(400) inside the try block; the call of optimize_allocations
\* passes user_id, a keyword the method does not take, and raises TypeError
\* before the method runs.  The handlers: ValueError gives 400 with its text,
\* any other Exception, HTTPException among them, gives 500.
optimize_yield(request) ==
    LET weights == MapSeq(LAMBDA i : request.strategies[i].weight, Len(request.strategies))
        raised ==
            IF Len(request.strategies) = 0
            THEN [type |-> "HTTPException", detail |-> "At least one strategy required"]
            ELSE IF FLess(FOne, FSum(weights))
            THEN [type |-> "HTTPException", detail |-> "Total weight cannot exceed 1.0"]
            ELSE [type |-> "TypeError", detail |-> "unexpected keyword argument 'user_id'"]
    IN IF raised.type = "ValueError"
       THEN [status_code |-> 400, detail |-> raised.detail]
       ELSE [status_code |-> 500, detail |-> "Internal server error"]

OptimizeYield(request) ==
    \E out \in {optimize_yield(request)}, fit \in BOOLEAN :
       /\ ThroughServices(fit)
       /\ ret' = [op |-> "optimize_yield", args |-> request,
                  status_code |-> out.status_code, detail |-> out.detail]
       /\ UNCHANGED <<strategies, yield_data, optimization_results, session_new,
                      session_failed, cache, tasks, runs>>

\* POST /yield/refresh-data (refresh_yield_data, lines 600-616): get_services,
\* then fetch_all_yield_data of the data service singleton as a background task
RefreshYieldData(responses, redis, db) ==
    \E fit \in BOOLEAN :
       /\ tasks = <<>>
       /\ ThroughServices(fit)
       /\ CompleteCycle(responses, redis, db)
       /\ UNCHANGED <<tasks, runs>>

\* GET /yield/analytics/system (get_system_analytics, lines 509-524):
\* get_services, get_system_analytics of the analytics singleton, and
\* SystemAnalyticsResponse(**result), which raises when a field is missing;
\* any exception is answered 500
GetSystemAnalyticsRoute(system_metrics, days, db_up) ==
    \E fit \in BOOLEAN :
    \E result \in {get_system_analytics(system_metrics, strategies, session_failed,
                                         days, db_up)} :
       /\ ThroughServices(fit)
       /\ ret' = [op |-> "get_system_analytics_route",
                  args |-> [system_metrics |-> system_metrics, days |-> days,
                            db_up |-> db_up],
                  status_code |-> IF result = <<>> THEN 500 ELSE 200,
                  result |-> result]
       /\ UNCHANGED <<strategies, yield_data, optimization_results, session_new,
                      session_failed, cache, tasks, runs>>

\* targets that carry the requested share of 100 ETH
build_targets_weighted(target_allocations) ==
    [i \in DOMAIN target_allocations |->
       [strategy_id |-> target_allocations[i].strategy_id,
        amount |-> IF target_allocations[i].weight = FZero THEN BigZero
                   ELSE Big(0, 100, 0, 0, 0)]]

\* yield_routes.py lines 568-574: one target per requested entry, amount 0
build_targets(target_allocations) ==
    [i \in DOMAIN target_allocations |->
       [strategy_id |-> target_allocations[i].strategy_id, amount |-> BigZero]]

\* yield_routes.py lines 555-566: the user's active holdings as allocations
current_of(user_strategies, user_id) ==
    LET holdings == active_holdings(user_strategies, user_id)
    IN [i \in DOMAIN holdings |->
          [strategy_id |-> holdings[i].strategy_id, amount |-> holdings[i].amount]]

\* POST /yield/rebalance (rebalance_portfolio, lines 545-597): get_services,
\* the holdings read on the request's own Session, the optimizer's
\* rebalance_portfolio and the response; any exception is answered 500.
\* user_strategies is what table user_strategies holds, user_id the current
\* user's id.
RebalanceRoute(user_strategies, user_id, request, db_up) ==
    \E fit \in BOOLEAN :
    \E current \in {current_of(user_strategies, user_id)},
       target \in {build_targets(request.target_allocations)} :
    \E order \in IterationOrders(current, target) :
    \E actions \in {rebalance_portfolio(current, target, order)} :
       /\ ThroughServices(fit)
       /\ ret' = IF db_up
                 THEN [op |-> "rebalance_route",
                       args |-> [user_strategies |-> user_strategies, user_id |-> user_id,
                                 request |-> request, db_up |-> db_up],
                       status_code |-> 200,
                       target |-> target,
                       rebalance_actions |-> actions,
                       estimated_gas_cost |-> Len(actions) * 100000,
                       estimated_slippage |-> FromRat(1, 100)]
                 ELSE [op |-> "rebalance_route",
                       args |-> [user_strategies |-> user_strategies, user_id |-> user_id,
                                 request |-> request, db_up |-> db_up],
                       status_code |-> 500]
       /\ UNCHANGED <<strategies, yield_data, optimization_results, session_new,
                      session_failed, cache, tasks, runs>>

\* ------------------------------------------------------------------ bounds
MaxStrategies == 2     \* rows of table strategies
MaxRequest == 2        \* entries of one optimization request

\* ------------------------------------------- the optimizer as a pure function
Pct(n) == FromRat(n, 100)

\* (apy, risk_score, is_active) of the strategy rows the optimizer is run on
StrategyProfiles ==
    { <<Pct(5), Pct(30), TRUE>>, <<Pct(5), Pct(20), TRUE>>, <<Pct(8), FOne, TRUE>>,
      <<FZero, FZero, TRUE>>, <<Pct(5), Pct(30), FALSE>> }

StrategyRow(id, address, kind, apy, tvl, risk, active) ==
    [id |-> id, type |-> kind, contract_address |-> address, network |-> "ethereum",
     apy |-> apy, tvl |-> tvl, risk_score |-> risk, is_active |-> active]

\* The requests of at most MaxRequest entries over ids, ids in ascending order
\* (InitMPT already permutes the rows the ids stand for).
Requests(ids) ==
    UNION { { r \in [1..n -> [strategy_id : ids, weight : {Pct(50)}]] :
                \A i \in 1..(n - 1) : r[i].strategy_id <= r[i + 1].strategy_id }
            : n \in 0..MaxRequest }

\* 1 ETH - 1 wei, 1 ETH, 1 ETH + 127 wei, 1000 ETH, 1000 ETH + 1 wei
Amounts ==
    { Big(0, 0, 999999, 999999, 999999), MIN_AMOUNT_THRESHOLD, Big(0, 1, 0, 0, 127),
      MAX_AMOUNT_THRESHOLD, Big(0, 1000, 0, 0, 1) }

Tolerances == { FZero, FromRat(1, 2), FOne }

Untrained == [db |-> "up", fit |-> FALSE, raw |-> <<>>]

InitMPT ==
    /\ \E f \in [1..MaxStrategies -> StrategyProfiles] :
          strategies = [i \in 1..MaxStrategies |->
                          StrategyRow(i, Address(i), "compound", f[i][1], BigZero,
                                      f[i][2], f[i][3])]
    /\ yield_data = <<>>
    /\ optimization_results = <<>>
    /\ session_new = <<>>
    /\ session_failed = FALSE
    /\ is_trained = FALSE
    /\ cache = NoCache
    /\ ret = [op |-> "none"]
    /\ opened = 0
    /\ closed = {}
    /\ services_db = 0
    /\ tasks = <<>>
    /\ runs = <<>>

NextMPT ==
    /\ ret.op = "none"
    /\ \E total_amount \in Amounts, risk_tolerance \in Tolerances :
       \E strategies_req \in Requests(1..(MaxStrategies + 1)) :
          OptimizeAllocations(total_amount, strategies_req, risk_tolerance, Untrained)

SpecMPT == InitMPT /\ [][NextMPT]_vars

\* ------------------------------------------------------------ the predictor
\* the numbers of yield_data rows the predictor is run on: none, one short of
\* what train_model fits on, and just enough
HistoryLengths == { 0, MIN_TRAINING_ROWS - 1, MIN_TRAINING_ROWS }

Observation(id, strategy_id, apy, tvl) ==
    [id |-> id, strategy_id |-> strategy_id, apy |-> apy, tvl |-> tvl,
     network |-> "ethereum"]

PredictEnvs ==
    [db : { "up", "down", "lookup" }, fit : BOOLEAN,
     raw : { [kind |-> "value", value |-> Pct(7)], [kind |-> "negative"],
             [kind |-> "raise"] }]

InitPredict ==
    /\ \E f \in [1..MaxStrategies -> StrategyProfiles] :
          strategies = [i \in 1..MaxStrategies |->
                          StrategyRow(i, Address(i), "compound", f[i][1], BigZero,
                                      f[i][2], f[i][3])]
    /\ \E n \in HistoryLengths :
          yield_data = [i \in 1..n |-> Observation(i, 1, Pct(5), BigZero)]
    /\ optimization_results = <<>>
    /\ session_new = <<>>
    /\ session_failed = FALSE
    /\ is_trained = FALSE
    /\ cache = NoCache
    /\ ret = [op |-> "none"]
    /\ opened = 0
    /\ closed = {}
    /\ services_db = 0
    /\ tasks = <<>>
    /\ runs = <<>>

NextPredict ==
    \/ \E strategy_id \in 1..(MaxStrategies + 1), env \in PredictEnvs :
          PredictYield(strategy_id, env)
    \/ \E recent \in HistoryLengths, dbUp \in BOOLEAN, fit \in BOOLEAN :
          TrainModel(recent, dbUp, fit)

SpecPredict == InitPredict /\ [][NextPredict]_vars

\* ------------------------------------------------------------- the service
MaxResults == 2        \* rows of table optimization_results
MaxObservations == 1   \* rows of table yield_data before the last cycle


StrategyRequests ==
    { [contract_address |-> Address(1), type |-> "compound", network |-> "ethereum",
       apy |-> Pct(5), tvl |-> Big(0, 1, 0, 0, 0), risk_score |-> Pct(30),
       is_active |-> TRUE],
      [contract_address |-> Address(2), type |-> "aave", network |-> "polygon",
       apy |-> Pct(8), tvl |-> Big(0, 0, 0, 0, 0), risk_score |-> FOne,
       is_active |-> TRUE] }

Failures == { [kind |-> "raise"], [kind |-> "status"], [kind |-> "malformed"] }

Item(name, apy, tvl) == [name |-> name, apy |-> apy, tvl |-> tvl, is_active |-> TRUE]

\* What the five sources answer when they are up, in a quiet and in a busy market
Healthy(market) ==
    << [kind |-> "ok",
        items |-> <<Item("usdc", IF market = "quiet" THEN Pct(3) ELSE Pct(25),
                         BigFromInt(500000000))>>],
       [kind |-> "ok",
        items |-> <<[name |-> "0xpool", fee_tier |-> 3000, tvl |-> BigFromInt(900000000)]>>],
       [kind |-> "ok", total_validators |-> 3,
        total_eth |-> IF market = "quiet" THEN 5 ELSE 30000000],
       [kind |-> "ok", items |-> <<Item("dai", Pct(4), BigFromInt(700000000))>>],
       [kind |-> "ok", items |-> <<Item("3pool", Pct(2), BigFromInt(300000000))>>] >>

\* the answers of one cycle: every source up, one source failing, or all failing
Responses ==
    UNION { { Healthy(market) }
            \cup { [Healthy(market) EXCEPT ![i] = f] : i \in 1..5, f \in Failures }
            \cup { [i \in 1..5 |-> f] : f \in Failures }
            : market \in {"quiet", "busy"} }

OptimizeInputs ==
    [total_amount : { Big(0, 0, 999999, 999999, 999999), MIN_AMOUNT_THRESHOLD,
                      MAX_AMOUNT_THRESHOLD, Big(0, 1000, 0, 0, 1) },
     strategies : { MapSeq(LAMBDA i : [strategy_id |-> ids[i], weight |-> Pct(50)], Len(ids))
                    : ids \in { <<1>>, <<1, 2>> } },
     risk_tolerance : { FromRat(1, 2) },
     db : { "up", "down", "predict", "commit" }]

\* the cycles that run next to the optimizer: every source up, or Compound down
OptimizerResponses ==
    { Healthy("quiet"), [Healthy("quiet") EXCEPT ![1] = [kind |-> "raise"]] }

RouteRequests ==
    [total_amount : { MIN_AMOUNT_THRESHOLD },
     strategies : { <<>>,
                    <<[strategy_id |-> 1, weight |-> Pct(60)],
                      [strategy_id |-> 2, weight |-> Pct(60)]>>,
                    <<[strategy_id |-> 1, weight |-> Pct(50)],
                      [strategy_id |-> 2, weight |-> Pct(50)]>> },
     risk_tolerance : { FromRat(1, 2) }]

Init ==
    /\ strategies = <<>>
    /\ yield_data = <<>>
    /\ optimization_results = <<>>
    /\ session_new = <<>>
    /\ session_failed = FALSE
    /\ is_trained = FALSE
    /\ cache = NoCache
    /\ ret = [op |-> "none"]
    /\ opened = 0
    /\ closed = {}
    /\ services_db = 0
    /\ tasks = <<>>
    /\ runs = <<>>

Next ==
    \/ \E request \in StrategyRequests, db_up \in BOOLEAN : CreateStrategy(request, db_up)
    \/ /\ Len(yield_data) < MaxObservations
       /\ \E responses \in OptimizerResponses, db \in {"up", "commit"} :
             FetchAllYieldData(responses, "down", db)
    \/ /\ Len(optimization_results) < MaxResults
       /\ \E in \in OptimizeInputs :
             OptimizeAllocations(in.total_amount, in.strategies, in.risk_tolerance,
                                 [db |-> in.db, fit |-> FALSE, raw |-> <<>>])

Spec == Init /\ [][Next]_vars

\* --------------------------------------------------------- the aggregator
NextAggregator ==
    /\ Len(yield_data) < MaxObservations
    /\ \E responses \in Responses, redis \in {"up", "down"}, db \in {"up", "down", "commit"} :
          FetchAllYieldData(responses, redis, db)

SpecAggregator == Init /\ [][NextAggregator]_vars

\* ------------------------------------------------- histories of cycles
MaxHistory == 6        \* rows of table yield_data before the last cycle of a history

\* the answers of the cycles of a history: every source up (five entries), a
\* busy market with the staking source down (four entries), a busy market whose
\* staking TVL does not fit the column (the third write fails), only Compound
\* up (one entry), every source down
CycleResponses ==
    { Healthy("quiet"),
      [Healthy("busy") EXCEPT ![3] = [kind |-> "raise"]],
      Healthy("busy"),
      [i \in 1..5 |-> IF i = 1 THEN Healthy("quiet")[1] ELSE [kind |-> "status"]],
      [i \in 1..5 |-> [kind |-> "raise"]] }

\* The optimize calls of a history are calls whose commit fails: they store
\* nothing and leave the services' session in need of a rollback.
\* the create requests of a history: two contracts, and the first contract's
\* address on another network
CycleStrategyRequests ==
    StrategyRequests
    \cup { [contract_address |-> Address(1), type |-> "compound", network |-> "polygon",
            apy |-> Pct(5), tvl |-> BigZero, risk_score |-> Pct(30), is_active |-> TRUE] }

NextCycles ==
    \/ \E request \in CycleStrategyRequests, db_up \in BOOLEAN :
          CreateStrategy(request, db_up)
    \/ /\ Len(yield_data) < MaxHistory
       /\ \E responses \in CycleResponses, db \in {"up", "down", "commit"} :
             FetchAllYieldData(responses, "down", db)
    \/ OptimizeAllocations(MIN_AMOUNT_THRESHOLD,
                           <<[strategy_id |-> 1, weight |-> Pct(50)]>>, FromRat(1, 2),
                           [db |-> "commit", fit |-> FALSE, raw |-> <<>>])

SpecCycles == Init /\ [][NextCycles]_vars

\* ---------------------------------------------------------- side by side
MaxRuns == 2    \* calls of fetch_all_yield_data running side by side

\* what the sources answer to a call: only Compound, only Aave, all of them in
\* a quiet market, and all but Curve in a busy one (its staking TVL does not fit
\* the column, so its write phase fails by itself)
RunResponses ==
    { [i \in 1..5 |-> IF i = 1 THEN Healthy("quiet")[1] ELSE [kind |-> "status"]],
      [i \in 1..5 |-> IF i = 4 THEN Healthy("quiet")[4] ELSE [kind |-> "status"]],
      Healthy("quiet"),
      [Healthy("busy") EXCEPT ![5] = [kind |-> "raise"]] }

NextRuns ==
    \/ /\ Len(runs) < MaxRuns
       /\ \E responses \in RunResponses : StartRun(responses)
    \/ \E r \in DOMAIN runs, db \in {"up", "commit"} : CompleteRun(r, "down", db)

SpecRuns == Init /\ [][NextRuns]_vars

\* ------------------------------------------------------------- the cache
\* what the service's Redis client is at a call: absent, failing, answering
RedisStates == { "none", "down", "up" }

\* cycles and cache reads with the cache in every state
NextCache ==
    \/ /\ Len(yield_data) < MaxHistory
       /\ \E responses \in CycleResponses, redis \in RedisStates, db \in {"up", "commit"} :
             FetchAllYieldData(responses, redis, db)
    \/ \E redis \in RedisStates : GetCachedYieldData(redis)

SpecCache == Init /\ [][NextCache]_vars

\* ------------------------------------------------------------ the risk scorer
\* A call of YieldDataService._calculate_risk_score.  data.numeric says that
\* tvl and apy are numbers, as every adapter makes them; on any other value a
\* comparison of lines 381-390 raises and the except branch answers 0.5.
CalculateRiskScore(data) ==
    /\ ret' = [op |-> "_calculate_risk_score", args |-> data, status |-> "returned",
               result |-> IF data.numeric THEN observation_risk_score(data)
                          ELSE FromRat(5, 10)]
    /\ UNCHANGED <<strategies, yield_data, optimization_results, session_new,
                   session_failed, is_trained, cache, request_vars, tasks, runs>>

\* the protocols the scorer names, one adapter it does not name, and a
\* protocol no adapter produces
RiskProtocols == {"compound", "aave", "curve", "uniswap_v3", "staking", "yearn"}

\* total value locked around the two thresholds of lines 381 and 383
RiskTvls ==
    { BigZero, BigSub(Big(0, 10000, 0, 0, 0), BigFromInt(1)), Big(0, 10000, 0, 0, 0),
      Big(1, 0, 0, 0, 0), BigAdd(Big(1, 0, 0, 0, 0), BigFromInt(1)), Big(5, 0, 0, 0, 0) }

\* yields around the two thresholds of lines 388 and 390
RiskApys == { FZero, Pct(4), Pct(5), Pct(10), Pct(20), Pct(21), Pct(50) }

RiskInputs ==
    [protocol : RiskProtocols, tvl : RiskTvls, apy : RiskApys, numeric : {TRUE}]
    \cup [protocol : {"compound"}, tvl : {BigZero}, apy : {FZero}, numeric : {FALSE}]

NextRisk == \E data \in RiskInputs : CalculateRiskScore(data)

SpecRisk == Init /\ [][NextRisk]_vars

\* ---------------------------------------------------------- the analytics
Metric(name, value, age) == [metric_name |-> name, metric_value |-> value, age |-> age]

\* what table system_metrics holds: nothing, only rows older than a week, or
\* rows of the last days as well
MetricHistories ==
    { <<>>,
      <<Metric("active_strategies", Round(2, 0, FALSE), 20)>>,
      <<Metric("active_strategies", Round(2, 0, FALSE), 1),
        Metric("total_tvl", Round(5, 0, FALSE), 2),
        Metric("average_apy", Pct(5), 3)>> }

Holding(user_id, strategy_id, amount, is_active) ==
    [user_id |-> user_id, strategy_id |-> strategy_id, amount |-> amount,
     is_active |-> is_active]

\* what table user_strategies holds: nothing, one active holding of user 1, or
\* two active holdings of user 1 next to a closed one and one of user 2
HoldingTables ==
    { <<>>,
      <<Holding(1, 1, Big(0, 2, 0, 0, 0), TRUE)>>,
      <<Holding(1, 1, Big(0, 2, 0, 0, 0), TRUE), Holding(1, 2, Big(0, 3, 0, 0, 0), TRUE),
        Holding(1, 1, Big(0, 1, 0, 0, 0), FALSE), Holding(2, 1, Big(0, 4, 0, 0, 0), TRUE)>> }

\* what table user_analytics holds: nothing, or the row an earlier update of
\* user 1 would have written for a holding of 2 ETH
UserAnalyticsTables ==
    { <<>>,
      <<[user_id |-> 1, total_deposited |-> Big(0, 2, 0, 0, 0),
         total_yield_earned |-> FMul(BigToFloat(Big(0, 2, 0, 0, 0)), FromRat(1, 10)),
         current_tvl |-> FAdd(BigToFloat(Big(0, 2, 0, 0, 0)),
                              FMul(BigToFloat(Big(0, 2, 0, 0, 0)), FromRat(1, 10))),
         average_apy |-> Pct(5)]>> }

NextAnalytics ==
    \/ \E request \in StrategyRequests, db_up \in BOOLEAN : CreateStrategy(request, db_up)
    \/ /\ Len(yield_data) < MaxObservations
       /\ \E responses \in OptimizerResponses, db \in {"up", "commit"} :
             FetchAllYieldData(responses, "down", db)
    \/ \E system_metrics \in MetricHistories, days \in {7, 30}, db_up \in BOOLEAN :
          GetSystemAnalytics(system_metrics, days, db_up)
    \/ \E user_strategies \in HoldingTables, user_analytics \in UserAnalyticsTables,
          user_id \in 1..2, db_up \in BOOLEAN :
          UpdateUserAnalytics(user_strategies, user_analytics, user_id, db_up)

SpecAnalytics == Init /\ [][NextAnalytics]_vars

\* ------------------------------------------------------------ the requests
MaxHandles == 3        \* requests served through get_services

NextRequests ==
    \/ \E request \in StrategyRequests, db_up \in BOOLEAN : CreateStrategy(request, db_up)
    \/ /\ opened < MaxHandles
       /\ \/ \E request \in RouteRequests : OptimizeYield(request)
          \/ /\ Len(yield_data) < MaxObservations
             /\ \E responses \in OptimizerResponses, db \in {"up", "commit"} :
                   RefreshYieldData(responses, "down", db)
          \/ \E system_metrics \in MetricHistories, db_up \in BOOLEAN :
                GetSystemAnalyticsRoute(system_metrics, 7, db_up)

SpecRequests == Init /\ [][NextRequests]_vars

\* ------------------------------------------------- the cycle, task by task
\* what source i answers when it answers: its data, or a status other than 200
SourceAnswerSet(i) == { Healthy("quiet")[i], [kind |-> "status"] }

\* one call of fetch_all_yield_data, from its gather to its return
NextFetch ==
    \/ /\ ret.op = "none"
       /\ StartFetch
    \/ \E i \in 1..5 : \E response \in SourceAnswerSet(i) : SourceAnswers(i, response)
    \/ \E i \in 1..5 : SourceStalls(i)
    \/ \E i \in 1..5 : SourceTimesOut(i)
    \/ \E redis \in {"up", "down"}, db \in {"up", "commit"} : FinishFetch(redis, db)

\* the future of asyncio.gather is done: all five tasks are
Gathered == tasks # <<>> /\ \A i \in DOMAIN tasks : tasks[i].state = "done"

\* the step that takes the call out of its gather, a FinishFetch step
GatherReturns == Gathered /\ tasks' = <<>>

\* The timer of every request fires, and a call whose gather is done is
\* resumed and runs to its return: the event loop runs what is ready, and the
\* cache and database calls of lines 73-76 answer or raise.
SpecFetch ==
    /\ Init
    /\ [][NextFetch]_vars
    /\ \A i \in 1..5 : WF_vars(SourceTimesOut(i))
    /\ WF_tasks(GatherReturns)

\* ----------------------------------------- the rebalancer as a pure function
MaxAllocations == 2    \* entries of one allocation list

\* 100 wei, the dust threshold above 100 wei (a difference of exactly the
\* threshold to 100 wei, of more than the threshold to nothing), 100 ETH
RebalanceAmounts ==
    { BigFromInt(100), Big(0, 0, 1000, 0, 100), Big(0, 100, 0, 0, 0) }

AllocationLists ==
    UNION { [1..n -> [strategy_id : {1, 2}, amount : RebalanceAmounts]]
            : n \in 0..MaxAllocations }

NextRebalance ==
    /\ ret.op = "none"
    /\ \E current_allocations \in AllocationLists, target_allocations \in AllocationLists :
          RebalancePortfolio(current_allocations, target_allocations)

SpecRebalance == Init /\ [][NextRebalance]_vars

\* ------------------------------------------------------- the rebalance route
\* what table user_strategies holds: nothing; user 1 with 100 ETH in strategy
\* 1, exactly the dust threshold in strategy 2 and a closed holding, next to a
\* holding of user 2; user 1 with two active rows for strategy 1
RouteHoldings ==
    { <<>>,
      <<Holding(1, 1, Big(0, 100, 0, 0, 0), TRUE), Holding(1, 2, DUST_THRESHOLD, TRUE),
        Holding(1, 3, Big(0, 5, 0, 0, 0), FALSE), Holding(2, 2, Big(0, 7, 0, 0, 0), TRUE)>>,
      <<Holding(1, 1, Big(0, 100, 0, 0, 0), TRUE), Holding(1, 1, Big(0, 2, 0, 0, 0), TRUE)>> }

\* RebalanceRequest: weights for strategies held, not held and closed
RebalanceRequests ==
    [user_id : {1},
     target_allocations :
        { <<>>,
          <<[strategy_id |-> 1, weight |-> FOne]>>,
          <<[strategy_id |-> 2, weight |-> Pct(50)], [strategy_id |-> 3, weight |-> Pct(50)]>>,
          <<[strategy_id |-> 1, weight |-> FZero], [strategy_id |-> 4, weight |-> FOne]>> }]

NextRebalanceRoute ==
    /\ opened < MaxHandles
    /\ \E user_strategies \in RouteHoldings, user_id \in 1..2,
          request \in RebalanceRequests, db_up \in BOOLEAN :
          RebalanceRoute(user_strategies, user_id, request, db_up)

SpecRebalanceRoute == Init /\ [][NextRebalanceRoute]_vars

\* --------------------------------------------------------------- properties
\* x * 2^60 as a Python int (floor), to add and compare floats exactly
Fixed(x) ==
    IF x.m = 0 THEN BigZero
    ELSE IF x.e + 60 >= 0 THEN BigShiftLeft(BigFromInt(x.m), x.e + 60)
    ELSE BigShiftRight(BigFromInt(x.m), -(x.e + 60))

RECURSIVE FixedWeightSum(_, _)
FixedWeightSum(allocations, n) ==
    IF n = 0 THEN BigZero
    ELSE BigAdd(FixedWeightSum(allocations, n - 1), Fixed(allocations[n].weight))

RECURSIVE AmountSum(_, _)
AmountSum(allocations, n) ==
    IF n = 0 THEN BigZero
    ELSE BigAdd(AmountSum(allocations, n - 1), allocations[n].amount)

Optimized == ret.op = "optimize_allocations" /\ ret.out.status = "ok"
Allocations == ret.out.row.optimal_allocations

\* k units of roundoff (2^-MantBits each), times 2^60
UnitsOfRoundoff(k) == BigShiftLeft(BigFromInt(k), 60 - MantBits)

\* C1: in every result optimize_allocations returns, every weight is a finite
\* non-negative number and the weights sum to 1 up to rounding: the exact sum
\* is within n + 1 units of roundoff of 1 for n allocations (for float64,
\* MantBits = 53, far inside 1e-6).
C1_WeightsSumToOne ==
    Optimized =>
        /\ \A i \in DOMAIN Allocations : IsFinite(Allocations[i].weight)
        /\ BigLeq(BigAbsDiff(FixedWeightSum(Allocations, Len(Allocations)), Fixed(FOne)),
                  UnitsOfRoundoff(Len(Allocations) + 1))

\* C1 witness: a result of the Sharpe-blend path with two different weights
C1_Witness ==
    /\ Optimized
    /\ Len(Allocations) = 2
    /\ FLess(Allocations[1].weight, Allocations[2].weight)
    /\ FLess(FZero, Allocations[1].weight)

\* floor(total_amount * weight), computed exactly
ExactFloor(total_amount, weight) ==
    IF weight.m = 0 THEN BigZero
    ELSE IF weight.e >= 0
    THEN BigShiftLeft(BigMulSmall(total_amount, weight.m), weight.e)
    ELSE BigShiftRight(BigMulSmall(total_amount, weight.m), -weight.e)

\* C7: in every optimize result each allocation amount is floor(total_amount *
\* weight) and the amounts sum to at most total_amount.
C7_AmountsFloorWithinTotal ==
    Optimized =>
        /\ \A i \in DOMAIN Allocations :
              Allocations[i].amount = ExactFloor(ret.args.total_amount, Allocations[i].weight)
        /\ BigLeq(AmountSum(Allocations, Len(Allocations)), ret.args.total_amount)

\* a * ka <= b * kb for finite floats a, b and integers 0 < ka, kb < 2^10, exactly
ScaledLeq(a, ka, b, kb) ==
    IF a.m = 0 THEN TRUE
    ELSE IF b.m = 0 THEN FALSE
    ELSE IF a.e - b.e > 12 THEN FALSE
    ELSE IF b.e - a.e > 12 THEN TRUE
    ELSE IF a.e >= b.e THEN a.m * ka * 2^(a.e - b.e) <= b.m * kb
    ELSE a.m * ka <= b.m * kb * 2^(b.e - a.e)

MinYield == CHOOSE y \in {Allocations[i].expected_yield : i \in DOMAIN Allocations} :
                \A i \in DOMAIN Allocations : FLeq(y, Allocations[i].expected_yield)
MaxYield == CHOOSE y \in {Allocations[i].expected_yield : i \in DOMAIN Allocations} :
                \A i \in DOMAIN Allocations : FLeq(Allocations[i].expected_yield, y)

\* C8 as stated: the expected_apy of every optimize result lies between the
\* smallest and the largest expected yield among its allocations, inclusive.
C8_ApyWithinYieldRange ==
    Optimized => /\ FLeq(MinYield, ret.out.row.expected_apy)
                 /\ FLeq(ret.out.row.expected_apy, MaxYield)

\* C8 amended: the expected_apy of every optimize result is the float the code's
\* weighted average rounds to, and lies between the smallest and the largest
\* expected yield up to rounding: within 2n + 1 units of roundoff, relative, for
\* n allocations.
C8_ApyWithinYieldRangeRounded ==
    Optimized =>
        LET k == 2 * Len(Allocations) + 1 IN
        /\ ret.out.row.expected_apy = calculate_expected_apy(Allocations)
        /\ IsFinite(ret.out.row.expected_apy)
        /\ ScaledLeq(MinYield, 2^MantBits, ret.out.row.expected_apy, 2^MantBits + k)
        /\ ScaledLeq(ret.out.row.expected_apy, 2^MantBits, MaxYield, 2^MantBits + k)

\* C8 witness: a result over two allocations with different expected yields
C8_Witness ==
    /\ Optimized
    /\ Len(Allocations) = 2
    /\ FLess(MinYield, ret.out.row.expected_apy)
    /\ FLess(ret.out.row.expected_apy, MaxYield)

\* the responses of a cycle in which exactly source i did not answer with data
OnlyFailed(responses, i) ==
    /\ responses[i].kind # "ok"
    /\ \A j \in DOMAIN responses : j # i => responses[j].kind = "ok"

\* what the adapter of source i makes of its response
SourceEntries(responses, i) ==
    CASE i = 1 -> fetch_compound_yields(responses[1])
      [] i = 2 -> fetch_uniswap_v3_yields(responses[2])
      [] i = 3 -> fetch_staking_yields(responses[3])
      [] i = 4 -> fetch_aave_yields(responses[4])
      [] i = 5 -> fetch_curve_yields(responses[5])

\* the entries of every source but source i, in the order of the sources
RECURSIVE EntriesOfOthers(_, _, _)
EntriesOfOthers(responses, i, j) ==
    IF j > Len(responses) THEN <<>>
    ELSE (IF j = i THEN <<>> ELSE SourceEntries(responses, j))
         \o EntriesOfOthers(responses, i, j + 1)

Fetched == ret.op = "fetch_all_yield_data"

\* C2: when exactly one of the five sources raises, answers with a status other
\* than 200 or answers with a body that does not parse, fetch_all_yield_data
\* returns normally and its result holds exactly the entries of the other four
\* sources and no entry of the failed one.
C2_OneSourceDown ==
    Fetched =>
        \A i \in 1..5 :
           OnlyFailed(ret.args.responses, i) =>
              /\ ret.status = "returned"
              /\ ret.result = EntriesOfOthers(ret.args.responses, i, 1)
              /\ Len(ret.result) = 4
              /\ \A k \in DOMAIN ret.result :
                    ret.result[k].protocol #
                       <<"compound", "uniswap_v3", "staking", "aave", "curve">>[i]

\* C2 witness: a cycle in which only the Compound request raised and the other
\* four sources delivered one entry each
C2_Witness ==
    /\ Fetched
    /\ OnlyFailed(ret.args.responses, 1)
    /\ ret.args.responses[1].kind = "raise"
    /\ Len(ret.result) = 4

\* C3 as stated: POST /yield/optimize with an empty strategy list, or with
\* weights that sum to more than 1.0, is answered with status 400 and the
\* reason as detail, and persists no OptimizationResult.
C3_InvalidRequestAnswered400 ==
    ret.op = "optimize_yield" =>
        LET weights == MapSeq(LAMBDA i : ret.args.strategies[i].weight,
                              Len(ret.args.strategies))
        IN /\ Len(ret.args.strategies) = 0 =>
                 /\ ret.status_code = 400
                 /\ ret.detail = "At least one strategy required"
           /\ (Len(ret.args.strategies) > 0 /\ FLess(FOne, FSum(weights))) =>
                 /\ ret.status_code = 400
                 /\ ret.detail = "Total weight cannot exceed 1.0"

OptimizeCalled == ret.op = "optimize_allocations"
AmountRejected ==
    /\ ret.out.status = "ValueError"
    /\ ret.out.detail \in {"Amount below minimum threshold", "Amount above maximum threshold"}

C5_OneRowPerResult ==
    [][ IF ret'.op = "optimize_allocations" /\ ret'.out.status = "ok"
        THEN optimization_results' =
                Append(optimization_results,
                       [id |-> Len(optimization_results) + 1] @@ ret'.out.row)
        ELSE optimization_results' = optimization_results ]_vars

\* C5 witness: after one result was stored, a call failed at its commit
C5_Witness ==
    /\ OptimizeCalled
    /\ ret.out.status = "Exception"
    /\ ret.out.failed
    /\ Len(optimization_results) = 1

InUnitInterval(x) == IsFinite(x) /\ FLeq(FZero, x) /\ FLeq(x, FOne)

\* C6: every risk score lies in [0, 1]: the risk_score of every strategy row
\* the aggregator created, the risk_score of every allocation of an optimize
\* result, and the portfolio risk_score of the result.
C6_RiskScoresInUnitInterval ==
    /\ \A i \in DOMAIN strategies :
          strategies[i].contract_address = NoAddress =>
             InUnitInterval(strategies[i].risk_score)
    /\ Optimized =>
          /\ \A i \in DOMAIN Allocations : InUnitInterval(Allocations[i].risk_score)
          /\ InUnitInterval(ret.out.row.risk_score)

\* C6 witness: a result over two strategies of different risk, one of them
\* created by the aggregator
C6_Witness ==
    /\ Optimized
    /\ Len(Allocations) = 2
    /\ \E i \in DOMAIN strategies : strategies[i].contract_address = NoAddress
    /\ FLess(Allocations[1].risk_score, ret.out.row.risk_score)
    /\ FLess(ret.out.row.risk_score, Allocations[2].risk_score)

Rebalanced == ret.op = "rebalance_portfolio"

\* C9: rebalance_portfolio with a target list identical to the current list
\* returns no action, for every allocation list.
C9_SameListsNoActions ==
    (Rebalanced /\ ret.args.current_allocations = ret.args.target_allocations)
        => ret.actions = <<>>

\* C9 witness: two holdings above the dust threshold rebalanced onto themselves
C9_Witness ==
    /\ Rebalanced
    /\ ret.args.current_allocations = ret.args.target_allocations
    /\ Len(ret.args.current_allocations) = 2
    /\ \A i \in 1..2 : /\ ret.args.current_allocations[i].strategy_id = i
                        /\ BigLess(DUST_THRESHOLD, ret.args.current_allocations[i].amount)

OnlyTarget(strategy_id, amount) ==
    /\ Rebalanced
    /\ ret.args.current_allocations = <<>>
    /\ ret.args.target_allocations = <<[strategy_id |-> strategy_id, amount |-> amount]>>

Deposit(strategy_id, amount) ==
    [strategy_id |-> strategy_id, action |-> "deposit", amount |-> amount,
     current_amount |-> BigZero, target_amount |-> amount]

\* C10 as stated: rebalance_portfolio with no current allocation and the
\* single target of amount 100 for strategy 1 returns exactly one action, a
\* deposit of 100 with current_amount 0 and target_amount 100.
C10_DepositOfHundred ==
    OnlyTarget(1, BigFromInt(100)) => ret.actions = <<Deposit(1, BigFromInt(100))>>

\* C10 amended: rebalance_portfolio with no current allocation and a single
\* target for strategy A returns exactly one action, a deposit for A of the
\* target amount with current_amount 0, when the amount exceeds the dust
\* threshold of 10^15 wei, and no action when it does not (as for 100 wei).
C10_DepositAboveDust ==
    \A strategy_id \in {1, 2}, amount \in RebalanceAmounts :
       OnlyTarget(strategy_id, amount) =>
          ret.actions = IF BigLess(DUST_THRESHOLD, amount)
                        THEN <<Deposit(strategy_id, amount)>> ELSE <<>>

\* C10 witness: 100 ETH to strategy 1 from nothing gave one action
C10_Witness ==
    /\ OnlyTarget(1, Big(0, 100, 0, 0, 0))
    /\ Len(ret.actions) = 1

Predicted == ret.op = "predict_yield"

\* C11 as stated: every call of predict_yield returns a finite number that is
\* not negative and raises nothing, whether the predictor is trained or not,
\* whether the strategy exists or not, and whatever fails inside it (the
\* training, the model, the strategy lookup).
C11_PredictAlwaysReturns ==
    Predicted =>
        /\ ret.out.status = "returned"
        /\ IsFinite(ret.out.value)
        /\ FLeq(FZero, ret.out.value)

\* the dict over no metric and no strategy
ZeroedAnalytics ==
    analytics_dict([total_strategies |-> BigZero, total_tvl |-> BigZero,
                    average_apy |-> FZero], <<>>)

\* C12 as stated: get_system_analytics(days=7) on an empty history (no
\* system_metrics row within the window, no active strategy) with the database
\* up returns total_strategies 0, total_tvl 0, average_apy 0.0 and an empty
\* network_breakdown, and not an empty or partial dict.
C12_EmptyHistoryZeroed ==
    ( /\ ret.op = "get_system_analytics"
      /\ ret.args.days = 7
      /\ ret.args.db_up
      /\ \A i \in DOMAIN ret.args.system_metrics : ret.args.system_metrics[i].age > 7
      /\ \A i \in DOMAIN strategies : ~strategies[i].is_active )
    => /\ ret.status = "returned"
       /\ ret.result = ZeroedAnalytics

\* the cycle had entries to store and its write phase failed: a statement of
\* the loop or the commit raised
WriteFailed == Fetched /\ ret.result # <<>> /\ ~ret.committed

\* C13 as stated: when the database is unavailable or a write fails during the
\* upsert phase of fetch_all_yield_data, the call raises to its caller and does
\* not return normally.
C13_WriteFailurePropagates ==
    WriteFailed => ret.status = "raised"

\* the rows of observations from row first on carry the apy, tvl and network
\* of the entries of result, one row per entry, in the entries' order
StoresEntries(observations, first, result) ==
    /\ Len(observations) = first - 1 + Len(result)
    /\ \A k \in DOMAIN result :
          /\ observations[first - 1 + k].apy = result[k].apy
          /\ observations[first - 1 + k].tvl = result[k].tvl
          /\ observations[first - 1 + k].network = result[k].network

\* C14: the write phase of a cycle is all-or-nothing.  A cycle either commits,
\* and then table yield_data holds its old rows and one new row per entry of
\* the cycle's mapping, or fails, and then the tables strategies and yield_data
\* are as they were before the cycle: no row of the cycle stays, not its
\* observations and not a strategy it created or updated.
C14_WritePhaseAllOrNothing ==
    [][ ret'.op = "fetch_all_yield_data" =>
          IF ret'.committed
          THEN /\ SubSeq(yield_data', 1, Len(yield_data)) = yield_data
               /\ StoresEntries(yield_data', Len(yield_data) + 1, ret'.result)
          ELSE /\ yield_data' = yield_data
               /\ strategies' = strategies ]_vars

\* C14 witness: the first cycle created the strategy for its first entry, wrote
\* two observations and failed at its third entry, and left both tables empty
C14_Witness ==
    /\ Fetched
    /\ ret.args.db = "up"
    /\ Len(ret.result) = 5
    /\ BigLess(BIGINT_MAX, ret.result[3].tvl)
    /\ ~ret.committed
    /\ strategies = <<>>
    /\ yield_data = <<>>

\* the active strategy rows the ids of the request resolve to
Resolved == query_active_strategies(strategies, RequestedIds(ret.args.strategies))

\* the exception type the amount checks of lines 129-133 raise: the type of a
\* validation error
AmountErrorType == "ValueError"

\* C15 as stated: an optimize call whose amount is within the bounds and whose
\* database statements all succeed drops the requested ids that match no
\* active strategy and returns allocations for exactly the ids that do; when
\* no requested id resolves it fails, with an error of another type than a
\* validation error.
C15_UnresolvedIdsDropped ==
    (OptimizeCalled /\ check_amount(ret.args.total_amount) = ""
                    /\ ret.out.status # "Exception") =>
        IF Resolved # <<>>
        THEN /\ ret.out.status = "ok"
             /\ {Allocations[i].strategy_id : i \in DOMAIN Allocations}
                   = {Resolved[i].id : i \in DOMAIN Resolved}
        ELSE ret.out.status \notin {"ok", AmountErrorType}

\* C16: after every history of cycles, committed, failed or rolled back, and
\* whatever else ran in between, every row of table yield_data references a row
\* of table strategies: the row the cycle found or created for the entry's
\* contract address and network.
C16_ObservationsReferenceStrategies ==
    \A i \in DOMAIN yield_data :
       \E j \in DOMAIN strategies :
          /\ strategies[j].id = yield_data[i].strategy_id
          /\ strategies[j].contract_address = NoAddress
          /\ strategies[j].network = yield_data[i].network

\* C16 witness: a cycle committed after a failed one, its observations
\* referencing the strategy it created behind two strategies of the route
C16_Witness ==
    /\ Fetched
    /\ ret.committed
    /\ Len(yield_data) >= 5
    /\ Len(strategies) = 3
    /\ strategies[3].contract_address = NoAddress
    /\ \A i \in DOMAIN yield_data : yield_data[i].strategy_id = 3

\* C17: after every history of cycles and create-strategy requests no two rows
\* of table strategies have the same contract address and network.
C17_StrategyPairsUnique ==
    \A i, j \in DOMAIN strategies :
       (/\ strategies[i].contract_address = strategies[j].contract_address
        /\ strategies[i].network = strategies[j].network) => i = j

\* C17 witness: a create request for a contract the table already holds was
\* refused while the table held two contracts of the route and the strategy of
\* the aggregator
C17_Witness ==
    /\ ret.op = "create_strategy"
    /\ ret.status_code = 400
    /\ Len(strategies) = 3
    /\ \E i \in DOMAIN strategies : strategies[i].contract_address = NoAddress
    /\ yield_data # <<>>

\* C18: table yield_data is append-only.  Every step keeps the rows it finds
\* as they are, in place; only a cycle of the aggregator adds rows; and a cycle
\* that commits adds exactly one row per entry of its merged mapping.
C18_ObservationsAppendOnly ==
    [][ /\ Len(yield_data') >= Len(yield_data)
        /\ SubSeq(yield_data', 1, Len(yield_data)) = yield_data
        /\ yield_data' # yield_data =>
              (ret'.op = "fetch_all_yield_data" /\ ret'.committed)
        /\ (ret'.op = "fetch_all_yield_data" /\ ret'.committed) =>
              StoresEntries(yield_data', Len(yield_data) + 1, ret'.result) ]_vars

\* C18 witness: a second cycle committed four entries behind the five of the
\* first
C18_Witness ==
    /\ Fetched
    /\ ret.committed
    /\ Len(ret.result) = 4
    /\ Len(yield_data) = 9

\* the routes that take their services from get_services
ServiceRoutes == { "optimize_yield", "fetch_all_yield_data", "get_system_analytics_route" }

\* those of them whose service method reaches the database: the aggregator's
\* write phase and the analytics queries (optimize_yield raises before the
\* optimizer runs)
OperationRoutes == { "fetch_all_yield_data", "get_system_analytics_route" }

\* C19: a request served through get_services opens one handle, which is
\* closed when the request ends, whatever its outcome; its aggregator or
\* analytics operation runs on that very handle, never on the handle of
\* another request and never on one that was closed before.
C19_HandlePerRequest ==
    [][ opened' # opened =>
          /\ ret'.op \in ServiceRoutes
          /\ closed' = closed \cup {opened'}
          /\ ret'.op \in OperationRoutes =>
                /\ services_db' = opened'
                /\ services_db' \notin closed ]_vars

\* the call of fetch_all_yield_data has returned
FetchReturned == Fetched /\ tasks = <<>>

\* result holds every entry the adapter of source i made of its response
HoldsEntriesOf(result, responses, i) ==
    \A k \in DOMAIN SourceEntries(responses, i) :
       \E j \in DOMAIN result : result[j] = SourceEntries(responses, i)[k]

\* C20: fetch_all_yield_data starts its five source fetches together; each
\* fetch that has not finished can be ended by its own timeout and can get its
\* answer whatever state the other four are in; a call that has started
\* eventually returns; and what it returns holds the entries of every source
\* that answered with data.
C20_FetchIsolatesSources ==
    /\ [][ (tasks = <<>> /\ tasks' # <<>>) =>
              \A i \in 1..5 : tasks'[i] = Running ]_vars
    /\ [](\A i \in DOMAIN tasks :
             /\ tasks[i].state # "done" => ENABLED SourceTimesOut(i)
             /\ tasks[i] = Running =>
                   ENABLED (\E response \in SourceAnswerSet(i) : SourceAnswers(i, response)))
    /\ (tasks # <<>>) ~> FetchReturned
    /\ [](FetchReturned =>
             \A i \in 1..5 :
                ret.args.responses[i].kind = "ok" =>
                   HoldsEntriesOf(ret.result, ret.args.responses, i))

\* C20 witness: the call returned after the request to the staking source
\* ran into its timeout, with the entries of the other four sources
C20_Witness ==
    /\ FetchReturned
    /\ ret.args.responses[3].kind = "raise"
    /\ \A i \in {1, 2, 4, 5} : ret.args.responses[i].kind = "ok"
    /\ Len(ret.result) = 4
    /\ \A i \in {1, 2, 4, 5} : HoldsEntriesOf(ret.result, ret.args.responses, i)

CacheRead == ret.op = "get_cached_yield_data"

\* C21: whatever the state of the cache, a cycle returns the mapping merged
\* from its sources and does to the tables what the write phase does with that
\* mapping, and it leaves the cached value alone unless Redis took the write; a
\* cache read returns, with None when there is no client, no value or no answer.
C21_CacheIsNoDependency ==
    [][ /\ ret'.op = "fetch_all_yield_data" =>
             /\ ret'.status = "returned"
             /\ ret'.result = gather_yields(ret'.args.responses)
             /\ \E saved \in {update_database_yields(strategies, yield_data,
                                                     optimization_results, session_new,
                                                     session_failed, ret'.result,
                                                     ret'.args.db)} :
                   /\ strategies' = saved.strategies
                   /\ yield_data' = saved.yield_data
                   /\ ret'.committed = saved.committed
             /\ ret'.args.redis # "up" => cache' = cache
        /\ ret'.op = "get_cached_yield_data" =>
             /\ ret'.status = "returned"
             /\ (ret'.args.redis # "up" \/ cache = NoCache) => ret'.result = None
             /\ (ret'.args.redis = "up" /\ cache # NoCache) => ret'.result = cache ]_vars

\* C21 witness: a cycle whose cache write failed stored its four entries, and
\* the cache holds what an earlier cycle put there
C21_Witness ==
    /\ Fetched
    /\ ret.args.redis = "down"
    /\ ret.committed
    /\ Len(ret.result) = 4
    /\ cache # NoCache
    /\ cache.data # ret.result

\* the strategy row the write phase finds for an entry of network ethereum
SharedRows ==
    SelectSeq(strategies, LAMBDA r : r.contract_address = NoAddress /\ r.network = "ethereum")

\* the calls that have returned after a write phase that stored entries
Writers == { r \in DOMAIN runs : /\ runs[r].phase = "done"
                                 /\ runs[r].committed
                                 /\ runs[r].result # <<>> }

\* whether a write phase with these entries commits on a database of its own
WritesAlone(all_yields, db) ==
    update_database_yields(<<>>, <<>>, <<>>, <<>>, FALSE, all_yields, db).committed

\* C22: with calls of fetch_all_yield_data running side by side on the same
\* strategy row, a call's write phase commits exactly when it would by itself,
\* and the row holds the apy and the tvl of the last entry of the call that
\* wrote last, at every moment, so never the apy of one call and the tvl of
\* another.
C22_LastWriteWins ==
    /\ \A r \in DOMAIN runs :
          runs[r].phase = "done" =>
             runs[r].committed = WritesAlone(runs[r].result, runs[r].db)
    /\ Writers = {} => SharedRows = <<>>
    /\ \A r \in Writers :
          (\A q \in Writers : runs[q].seq <= runs[r].seq) =>
             /\ Len(SharedRows) = 1
             /\ SharedRows[1].apy = runs[r].result[Len(runs[r].result)].apy
             /\ SharedRows[1].tvl = runs[r].result[Len(runs[r].result)].tvl

\* C22 witness: two calls have both returned after storing their entries, the
\* one that started first wrote last, and the row holds its pair, which differs
\* from the other call's in apy and in tvl
C22_Witness ==
    /\ Len(runs) = 2
    /\ Writers = {1, 2}
    /\ runs[1].seq = 2
    /\ LET mine == runs[1].result[Len(runs[1].result)]
           other == runs[2].result[Len(runs[2].result)]
       IN /\ mine.apy # other.apy
          /\ mine.tvl # other.tvl
          /\ SharedRows[1].apy = mine.apy
          /\ SharedRows[1].tvl = mine.tvl

\* the ids of an allocation list
IdsOf(allocations) == { allocations[i].strategy_id : i \in DOMAIN allocations }

\* the amount an allocation list gives a strategy id: that of its last entry
\* for the id, 0 without one
AmountIn(allocations, strategy_id) == amount_of(allocations, strategy_id, Len(allocations))

\* C23: rebalance_portfolio returns actions only for ids of the current or
\* the target list, and for each such id one action when target and current
\* amount (0 for a side without the id) differ by more than the dust threshold
\* of 10^15 wei and none otherwise; the action is a deposit exactly when the
\* target is the larger amount and a withdraw exactly when it is the smaller,
\* and its amount is the positive difference.
C23_OneActionPerDifference ==
    Rebalanced =>
        LET current == ret.args.current_allocations
            target == ret.args.target_allocations
            ids == IdsOf(current) \cup IdsOf(target)
            ActionsFor(id) == { i \in DOMAIN ret.actions : ret.actions[i].strategy_id = id }
        IN /\ \A i \in DOMAIN ret.actions : ret.actions[i].strategy_id \in ids
           /\ \A id \in ids :
                 Cardinality(ActionsFor(id)) =
                    IF BigLess(DUST_THRESHOLD,
                               BigAbsDiff(AmountIn(target, id), AmountIn(current, id)))
                    THEN 1 ELSE 0
           /\ \A i \in DOMAIN ret.actions :
                 LET id == ret.actions[i].strategy_id
                     was == AmountIn(current, id)
                     goal == AmountIn(target, id)
                 IN /\ ret.actions[i].action \in {"deposit", "withdraw"}
                    /\ ret.actions[i].action = "deposit" <=> BigLess(was, goal)
                    /\ ret.actions[i].action = "withdraw" <=> BigLess(goal, was)
                    /\ ret.actions[i].amount = BigAbsDiff(goal, was)
                    /\ BigLess(BigZero, ret.actions[i].amount)

\* C23 witness: strategy 1 is withdrawn from and strategy 2, which the current
\* side does not hold, is deposited to
C23_Witness ==
    /\ Rebalanced
    /\ Len(ret.actions) = 2
    /\ IdsOf(ret.args.current_allocations) = {1}
    /\ IdsOf(ret.args.target_allocations) = {1, 2}
    /\ \E i, j \in DOMAIN ret.actions :
          /\ ret.actions[i].strategy_id = 1 /\ ret.actions[i].action = "withdraw"
          /\ ret.actions[j].strategy_id = 2 /\ ret.actions[j].action = "deposit"

\* the call found candidates, the database answered every statement, and every
\* candidate has expected yield 0 (the untrained predictor answers with the
\* stored apy), so all scores are 0
DegenerateScores ==
    /\ OptimizeCalled
    /\ check_amount(ret.args.total_amount) = ""
    /\ ret.out.detail # "database error"
    /\ ~ret.out.trained
    /\ Resolved # <<>>
    /\ \A i \in DOMAIN Resolved : Resolved[i].apy = FZero

\* the entries of the request that name an active strategy: the candidates
Candidates ==
    SelectSeq(ret.args.strategies,
              LAMBDA entry : \E i \in DOMAIN Resolved : Resolved[i].id = entry.strategy_id)

\* C24 as stated: an optimize call whose candidates all score 0 does not fail
\* and returns one allocation per candidate, n in all, each with weight 1/n and
\* amount floor(total_amount / n).
C24_FallbackEqualFloor ==
    DegenerateScores =>
        /\ ret.out.status = "ok"
        /\ Len(Allocations) = Len(Candidates)
        /\ \A i \in DOMAIN Allocations :
              /\ Allocations[i].strategy_id = Candidates[i].strategy_id
              /\ Allocations[i].weight = FDiv(FOne, Round(Len(Candidates), 0, FALSE))
              /\ Allocations[i].amount = BigDivSmall(ret.args.total_amount, Len(Candidates))

\* a step in which train_model ran, directly or from predict_yield's line 84
TrainedNow ==
    \/ ret'.op = "train_model" /\ ret'.result
          /\ ret'.args.recent >= MIN_TRAINING_ROWS /\ ret'.args.dbUp /\ ret'.args.fit
    \/ ret'.op = "predict_yield" /\ ~ret'.args.trained /\ ret'.out.trained
          /\ Len(yield_data) >= MIN_TRAINING_ROWS /\ ret'.args.env.fit

\* C25 as stated: the predictor becomes trained only in a step whose
\* train_model call fitted on at least 100 recent observations, and after
\* every train_model call that returns False, a failed retrain of a trained
\* predictor included, the predictor is untrained.
C25_FailedTrainingUntrains ==
    [][/\ (~is_trained /\ is_trained') => TrainedNow
       /\ (ret'.op = "train_model" /\ ~ret'.result) => ~is_trained']_vars

\* a predict_yield call on an untrained predictor
PredictedUntrained == ret.op = "predict_yield" /\ ~ret.args.trained

\* C26: predict_yield on an untrained predictor calls train_model exactly once;
\* when the predictor is still untrained after it and the strategy lookup
\* answers, the call returns the apy stored for the strategy, 0 when no such
\* strategy exists, and the predictor is untrained afterwards.
C26_UntrainedFallsBackToStoredApy ==
    PredictedUntrained =>
        /\ ret.out.train_calls = 1
        /\ (~ret.out.trained /\ ret.out.status = "returned") =>
              /\ ~is_trained
              /\ LET strategy == query_strategy(strategies, ret.args.strategy_id) IN
                    ret.out.value = IF strategy.id = 0 THEN FZero ELSE strategy.apy

\* C26 witness: an untrained predictor with one row too few to train on is
\* asked about a strategy with a non-zero apy and answers with it
C26_Witness ==
    /\ PredictedUntrained
    /\ Len(yield_data) = MIN_TRAINING_ROWS - 1
    /\ ret.args.env.fit
    /\ ret.out.train_calls = 1
    /\ ~is_trained
    /\ ret.out.status = "returned"
    /\ ret.args.strategy_id <= MaxStrategies
    /\ ret.out.value = strategies[ret.args.strategy_id].apy
    /\ ret.out.value # FZero

RiskScored == ret.op = "_calculate_risk_score"

\* the deltas of the risk score, in tenths
ProtocolDelta(protocol) ==
    IF protocol \in {"compound", "aave"} THEN -2
    ELSE IF protocol = "curve" THEN -1
    ELSE IF protocol = "uniswap_v3" THEN 1
    ELSE 0

TvlDelta(tvl) ==
    IF BigLess(Big(1, 0, 0, 0, 0), tvl) THEN -1
    ELSE IF BigLess(tvl, Big(0, 10000, 0, 0, 0)) THEN 1
    ELSE 0

ApyDelta(apy) ==
    IF FLess(Pct(20), apy) THEN 2
    ELSE IF FLess(apy, Pct(5)) THEN -1
    ELSE 0

\* x moved by d tenths
Moved(x, d) ==
    IF d < 0 THEN FSub(x, FromRat(-d, 10))
    ELSE IF d > 0 THEN FAdd(x, FromRat(d, 10))
    ELSE x

\* C27: every call of the risk scorer returns; for numeric tvl and apy the
\* score is 0.5 moved by the protocol's delta, the TVL's delta and the APY's
\* delta, clamped to [0, 1], and is the same for the same input.
C27_RiskScoreIsSumOfDeltas ==
    RiskScored =>
        /\ ret.status = "returned"
        /\ FLeq(FZero, ret.result) /\ FLeq(ret.result, FOne)
        /\ ret.args.numeric =>
              /\ ret.result = Clamp(Moved(Moved(Moved(FromRat(5, 10),
                                                       ProtocolDelta(ret.args.protocol)),
                                                 TvlDelta(ret.args.tvl)),
                                           ApyDelta(ret.args.apy)))
              /\ ret.result = observation_risk_score(ret.args)

\* C27 witness: a curve pool with exactly 20% APY and a TVL of exactly the
\* small threshold gets only the protocol's delta: 0.5 - 0.1
C27_Witness ==
    /\ RiskScored
    /\ ret.args.protocol = "curve"
    /\ ret.args.tvl = Big(0, 10000, 0, 0, 0)
    /\ ret.args.apy = Pct(20)
    /\ ret.result = FSub(FromRat(5, 10), FromRat(1, 10))

\* the rows table user_analytics holds for a user after an update
RowsOf(user_id) ==
    SelectSeq(ret.user_analytics, LAMBDA row : row.user_id = user_id)

\* C28 as stated: after update_user_analytics(user_id), with the database up
\* and the user holding active positions, exactly one user_analytics row exists
\* for the user, its total_deposited is the sum of the active holdings' amounts
\* and its current_tvl is total_deposited + total_yield_earned.
C28_OneAnalyticsRowPerUser ==
    ( /\ ret.op = "update_user_analytics"
      /\ ret.args.db_up
      /\ active_holdings(ret.args.user_strategies, ret.args.user_id) # <<>> )
    => /\ Len(RowsOf(ret.args.user_id)) = 1
       /\ LET row == RowsOf(ret.args.user_id)[1]
              holdings == active_holdings(ret.args.user_strategies, ret.args.user_id)
          IN /\ row.total_deposited = sum_amounts(holdings, Len(holdings))
             /\ row.current_tvl = FAdd(BigToFloat(row.total_deposited),
                                       row.total_yield_earned)

RebalanceAnswered == ret.op = "rebalance_route" /\ ret.status_code = 200

AggregatorRows == SelectSeq(strategies, LAMBDA r : r.contract_address = NoAddress)

\* C30: over every history of cycles and other operations the aggregator's
\* strategy rows are at most one per network, every row of table yield_data is
\* attached to the aggregator's row of its network, and right after a cycle
\* that committed entries that row carries the apy and tvl of the last entry
\* the cycle processed.
C30_OneAggregatorRowPerNetwork ==
    /\ \A i, j \in DOMAIN AggregatorRows :
          AggregatorRows[i].network = AggregatorRows[j].network => i = j
    /\ \A k \in DOMAIN yield_data :
          \E i \in DOMAIN AggregatorRows :
             /\ AggregatorRows[i].id = yield_data[k].strategy_id
             /\ AggregatorRows[i].network = yield_data[k].network
    /\ (Fetched /\ ret.committed /\ ret.result # <<>>) =>
          LET last == ret.result[Len(ret.result)] IN
          \E i \in DOMAIN AggregatorRows :
             /\ AggregatorRows[i].network = last.network
             /\ AggregatorRows[i].apy = last.apy
             /\ AggregatorRows[i].tvl = last.tvl

\* C30 witness: a second cycle committed five entries of five sources behind
\* an earlier cycle; all rows of yield_data hang on the one row of the
\* aggregator, which stands behind a row of the create route and carries the
\* last entry's apy, not the first's
C30_Witness ==
    /\ Fetched
    /\ ret.committed
    /\ Len(ret.result) = 5
    /\ Len(yield_data) > 5
    /\ Len(strategies) >= 2
    /\ Len(AggregatorRows) = 1
    /\ \A k \in DOMAIN yield_data : yield_data[k].strategy_id = AggregatorRows[1].id
    /\ AggregatorRows[1].apy = ret.result[5].apy
    /\ AggregatorRows[1].apy # ret.result[1].apy
    /\ {ret.result[k].protocol : k \in 1..5} =
          {"compound", "uniswap_v3", "staking", "aave", "curve"}

====
